---- MODULE Spec2Model ----
(***************************************************************************)
(* gralph: the DAG/mutex Scheduler (scheduler.py) and the Runner control   *)
(* loop (runner.py) that launches, reaps, retries and merges agent work.   *)
(*                                                                         *)
(* Python dicts are functions whose DOMAIN is the set of keys present.     *)
(* Failure messages are modelled by the set of classification substrings   *)
(* the lower-cased text contains; the empty set is the empty string and a  *)
(* text matching no pattern carries a token that is in no pattern list.    *)
(***************************************************************************)
EXTENDS Integers, Sequences, FiniteSets, TLC

VARIABLES
    tf,                      \* TaskFile: tasks (ordered ids), depends_on, mutex, completed
    cfg,                     \* Config record (read-only during a run)
    state,                   \* Scheduler._state : task id -> TaskState
    locked,                  \* Scheduler._locked: mutex name -> holding task id
    active,                  \* Runner.active: list of AgentSlot
    retry_counts,            \* Runner.retry_counts
    retry_after,             \* Runner.retry_after
    external_failure_since,  \* Runner._external_failure_since
    task_providers,          \* Runner.task_providers
    provider_index,          \* Runner._provider_index
    iteration,               \* Runner.iteration (== Runner.agent_num)
    stop_requested,          \* Runner._stop_requested
    now,                     \* the clock read by time.monotonic() / file mtimes
    pc,                      \* position of the control thread in run()/_main_loop
    to_start,                \* _main_loop local: ready[:slots] not yet launched
    reap_i,                  \* _reap_finished local: index of the slot being polled
    still_active,            \* _reap_finished local
    result,                  \* what run() produced
    reports,                 \* reports/<task>.json : task id -> last report written
    prd_completed,           \* ids whose completed flag was written to the task file
    launches,                \* history: number of _launch_agent calls per task
    first_failure_at,        \* history: clock value when a task's first failed attempt was handled
    retried_at,              \* history: clock value when a task waiting for its relaunch was sent back to Pending
    repo,                    \* git: the reserved and ordinary files on the merge base, the base branch, the task branch and in its worktree
    last_op                  \* history: the last operation applied, its task and what it was given

schedVars  == <<state, locked>>
runnerVars == <<active, retry_counts, retry_after, external_failure_since,
                task_providers, provider_index, iteration, stop_requested,
                now, pc, to_start, reap_i, still_active, result, reports,
                prd_completed, launches, first_failure_at, retried_at, repo>>
vars == <<tf, cfg, state, locked, active, retry_counts, retry_after,
          external_failure_since, task_providers, provider_index, iteration,
          stop_requested, now, pc, to_start, reap_i, still_active, result,
          reports, prd_completed, launches, first_failure_at, retried_at, repo, last_op>>

(***************************************************************************)
(* Bounds of the model                                                     *)
(***************************************************************************)
MaxTime     == 3    \* the clock stops advancing here
MaxRetries  == 2    \* largest cfg.max_retries explored
MaxParallel == 2    \* largest cfg.max_parallel explored
MaxIterations == 2  \* largest positive cfg.max_iterations explored

(***************************************************************************)
(* Generic helpers                                                         *)
(***************************************************************************)
Get(d, k, default) == IF k \in DOMAIN d THEN d[k] ELSE default
Put(d, k, v)       == [x \in DOMAIN d \cup {k} |-> IF x = k THEN v ELSE d[x]]
Pop(d, k)          == [x \in DOMAIN d \ {k} |-> d[x]]
EmptyDict          == [x \in {} |-> 0]
SeqToSet(s)        == {s[i] : i \in 1..Len(s)}
Take(s, n)         == SubSeq(s, 1, IF n < Len(s) THEN n ELSE Len(s))

(***************************************************************************)
(* TaskState (scheduler.py:11-15)                                          *)
(***************************************************************************)
PENDING == "pending"
RUNNING == "running"
DONE    == "done"
FAILED  == "failed"
TaskState == {PENDING, RUNNING, DONE, FAILED}

TaskIds == SeqToSet(tf.tasks)

SchedulerInit_all_pending(t) == [tid \in SeqToSet(t.tasks) |-> PENDING]
\* Scheduler.__init__ : completed tasks start Done, all others Pending
SchedulerInit(t) ==
    [tid \in SeqToSet(t.tasks) |-> IF t.completed[tid] THEN DONE ELSE PENDING]

\* Scheduler.state
StateOf(st, tid) == Get(st, tid, PENDING)

count_of(st, s) == Cardinality({tid \in DOMAIN st : st[tid] = s})
count_pending(st) == count_of(st, PENDING)
count_running(st) == count_of(st, RUNNING)
count_failed(st)  == count_of(st, FAILED)

\* deps_satisfied: walk the list, skip "", stop at the first dep not Done
RECURSIVE deps_loop(_, _, _)
deps_loop(st, ds, i) ==
    IF i > Len(ds) THEN TRUE
    ELSE IF ds[i] = "" THEN deps_loop(st, ds, i + 1)
    ELSE IF Get(st, ds[i], "none") # DONE THEN FALSE
    ELSE deps_loop(st, ds, i + 1)

RECURSIVE deps_loop_noskip(_, _, _)
deps_loop_noskip(st, ds, i) ==
    IF i > Len(ds) THEN TRUE
    ELSE IF Get(st, ds[i], "none") # DONE THEN FALSE
    ELSE deps_loop_noskip(st, ds, i + 1)

deps_satisfied_any_done(st, tid) ==
    LET ds == Get(tf.depends_on, tid, <<>>)
    IN  \/ \A i \in 1..Len(ds) : ds[i] = ""
        \/ \E i \in 1..Len(ds) : ds[i] # "" /\ Get(st, ds[i], "none") = DONE
deps_satisfied_noskip(st, tid) == deps_loop_noskip(st, Get(tf.depends_on, tid, <<>>), 1)
deps_satisfied(st, tid) == deps_loop(st, Get(tf.depends_on, tid, <<>>), 1)

\* mutex_available: walk the list, skip "", stop at the first locked name
RECURSIVE mutex_loop(_, _, _)
mutex_loop(lk, ms, i) ==
    IF i > Len(ms) THEN TRUE
    ELSE IF ms[i] = "" THEN mutex_loop(lk, ms, i + 1)
    ELSE IF ms[i] \in DOMAIN lk THEN FALSE
    ELSE mutex_loop(lk, ms, i + 1)

mutex_available_first_only(lk, tid) ==
    LET ms == Get(tf.mutex, tid, <<>>)
    IN  Len(ms) = 0 \/ ms[1] = "" \/ ms[1] \notin DOMAIN lk
mutex_available(lk, tid) == mutex_loop(lk, Get(tf.mutex, tid, <<>>), 1)

\* _lock_mutex: every non-empty name is written, whoever held it before
RECURSIVE lock_loop(_, _, _, _)
lock_loop(lk, ms, i, tid) ==
    IF i > Len(ms) THEN lk
    ELSE IF ms[i] # "" THEN lock_loop(Put(lk, ms[i], tid), ms, i + 1, tid)
    ELSE lock_loop(lk, ms, i + 1, tid)

lock_mutex(lk, tid) == lock_loop(lk, Get(tf.mutex, tid, <<>>), 1, tid)

\* _unlock_mutex: every declared name is popped, whoever holds it
RECURSIVE unlock_loop(_, _, _)
unlock_loop(lk, ms, i) ==
    IF i > Len(ms) THEN lk
    ELSE unlock_loop(Pop(lk, ms[i]), ms, i + 1)

\* variant: releasing a task's mutexes empties the lock table
unlock_mutex_clearing_table(lk, tid) == EmptyDict
unlock_mutex_first_only(lk, tid) ==
    LET ms == Get(tf.mutex, tid, <<>>)
    IN  IF Len(ms) = 0 THEN lk ELSE Pop(lk, ms[1])
unlock_mutex(lk, tid) == unlock_loop(lk, Get(tf.mutex, tid, <<>>), 1)

\* get_ready: the Pending tasks, in _state (task file) order, that pass both checks
RECURSIVE ready_loop(_, _, _)
ready_loop(st, lk, i) ==
    IF i > Len(tf.tasks) THEN <<>>
    ELSE LET tid == tf.tasks[i]
         IN  IF st[tid] = PENDING /\ deps_satisfied(st, tid) /\ mutex_available(lk, tid)
             THEN <<tid>> \o ready_loop(st, lk, i + 1)
             ELSE ready_loop(st, lk, i + 1)

get_ready_reversed(st, lk) ==
    LET r == ready_loop(st, lk, 1)
    IN  [i \in 1..Len(r) |-> r[Len(r) + 1 - i]]
get_ready(st, lk) == ready_loop(st, lk, 1)

\* Transitions: each returns the new [state, locked] pair
start_task(st, lk, tid)    == [state |-> Put(st, tid, RUNNING), locked |-> lock_mutex(lk, tid)]
complete_task(st, lk, tid) == [state |-> Put(st, tid, DONE),    locked |-> unlock_mutex(lk, tid)]
fail_task(st, lk, tid)     == [state |-> Put(st, tid, FAILED),  locked |-> unlock_mutex(lk, tid)]
retry_task(st, lk, tid)    == [state |-> Put(st, tid, PENDING), locked |-> unlock_mutex(lk, tid)]

check_deadlock_unless_failed(st, lk) ==
    /\ count_pending(st) > 0
    /\ count_running(st) = 0
    /\ count_failed(st) = 0
    /\ Len(get_ready(st, lk)) = 0
check_deadlock(st, lk) ==
    /\ count_pending(st) > 0
    /\ count_running(st) = 0
    /\ Len(get_ready(st, lk)) = 0

\* explain_block: the unmet dependencies with their state and the held mutexes
\* with their holder, in declaration order (the text joins them with spaces
\* after "dependsOn:" and "mutex:")
RECURSIVE blocked_deps_loop(_, _, _)
blocked_deps_loop(st, ds, i) ==
    IF i > Len(ds) THEN <<>>
    ELSE IF ds[i] = "" \/ Get(st, ds[i], PENDING) = DONE THEN blocked_deps_loop(st, ds, i + 1)
    ELSE <<<<ds[i], Get(st, ds[i], PENDING)>>>> \o blocked_deps_loop(st, ds, i + 1)

RECURSIVE blocked_mx_loop(_, _, _)
blocked_mx_loop(lk, ms, i) ==
    IF i > Len(ms) THEN <<>>
    ELSE IF ms[i] = "" \/ ms[i] \notin DOMAIN lk THEN blocked_mx_loop(lk, ms, i + 1)
    ELSE <<<<ms[i], lk[ms[i]]>>>> \o blocked_mx_loop(lk, ms, i + 1)

explain_block(st, lk, tid) ==
    [dependsOn |-> blocked_deps_loop(st, Get(tf.depends_on, tid, <<>>), 1),
     mutex     |-> blocked_mx_loop(lk, Get(tf.mutex, tid, <<>>), 1)]

\* has_failed_deps: any listed dependency is Failed
has_failed_deps(st, tid) ==
    \E i \in 1..Len(Get(tf.depends_on, tid, <<>>)) :
        Get(st, tf.depends_on[tid][i], "none") = FAILED


(***************************************************************************)
(* Failure classification (runner.py:118-147, 1090-1099)                   *)
(***************************************************************************)
MergeConflictMarkers ==
    {"automatic merge failed", "conflict (content)", "conflict in ", "merge conflict"}

ExternalPatterns ==
    {"buninstallfailederror", "command not found", "enoent", "eacces",
     "commandnotfoundexception", "objectnotfound:",
     "permission denied", "network", "timeout", "tls", "econnreset",
     "etimedout", "lockfile", "install", "certificate", "ssl",
     "rate limit", "quota", "429", "too many requests", "hit your limit", "stalled",
     "blocked by policy", "read-only sandbox", "approval_policy"}

\* engine_errors.py:15-19
PolicyBlockPatterns == {"blocked by policy", "read-only sandbox", "approval_policy"}

is_merge_conflict_failure(msg) ==
    IF msg = {} THEN FALSE ELSE msg \cap MergeConflictMarkers # {}

is_external_failure(msg) ==
    IF msg = {} THEN FALSE
    ELSE IF is_merge_conflict_failure(msg) THEN TRUE
    ELSE msg \cap ExternalPatterns # {}

should_retry_no_cap(err_msg, retries_used) ==
    IF cfg.max_retries <= 0 THEN FALSE
    ELSE IF "blocked by policy" \in err_msg \/ "read-only sandbox" \in err_msg THEN FALSE
    ELSE is_external_failure(err_msg)
should_retry_any_class(err_msg, retries_used) ==
    IF cfg.max_retries <= 0 THEN FALSE
    ELSE IF retries_used >= cfg.max_retries THEN FALSE
    ELSE IF "blocked by policy" \in err_msg \/ "read-only sandbox" \in err_msg THEN FALSE
    ELSE TRUE
should_retry(err_msg, retries_used) ==
    IF cfg.max_retries <= 0 THEN FALSE
    ELSE IF retries_used >= cfg.max_retries THEN FALSE
    ELSE IF "blocked by policy" \in err_msg \/ "read-only sandbox" \in err_msg THEN FALSE
    ELSE is_external_failure(err_msg)

(***************************************************************************)
(* Runner state touched by the handlers, as one record                     *)
(***************************************************************************)
Cur ==
    [state |-> state, locked |-> locked, retry_counts |-> retry_counts,
     retry_after |-> retry_after, external_failure_since |-> external_failure_since,
     task_providers |-> task_providers, provider_index |-> provider_index,
     reports |-> reports, prd_completed |-> prd_completed]

Apply(r) ==
    /\ state' = r.state
    /\ locked' = r.locked
    /\ retry_counts' = r.retry_counts
    /\ retry_after' = r.retry_after
    /\ external_failure_since' = r.external_failure_since
    /\ task_providers' = r.task_providers
    /\ provider_index' = r.provider_index
    /\ reports' = r.reports
    /\ prd_completed' = r.prd_completed

WithSched(r, s) == [r EXCEPT !.state = s.state, !.locked = s.locked]

\* index of the first occurrence of p in the provider list, 0-based; -1 if absent
RECURSIVE index_loop(_, _, _)
index_loop(ps, p, i) ==
    IF i > Len(ps) THEN -1
    ELSE IF ps[i] = p THEN i - 1
    ELSE index_loop(ps, p, i + 1)

provider_for_task_unsticky(r, tid) ==
    LET provider == cfg.providers[(r.provider_index % Len(cfg.providers)) + 1]
    IN  [r EXCEPT !.provider_index = @ + 1,
                  !.task_providers = Put(@, tid, provider)]
\* _provider_for_task: sticky per task, round-robin on first assignment
provider_for_task(r, tid) ==
    LET assigned == Get(r.task_providers, tid, "")
        provider == cfg.providers[(r.provider_index % Len(cfg.providers)) + 1]
    IN  IF assigned # "" THEN r
        ELSE [r EXCEPT !.provider_index = @ + 1,
                       !.task_providers = Put(@, tid, provider)]

\* _rotate_provider_for_task: next distinct provider after the current one
RECURSIVE rotate_loop(_, _, _, _)
rotate_loop(ps, start_idx, current, offset) ==
    IF offset > Len(ps) THEN current
    ELSE LET candidate == ps[((start_idx + offset) % Len(ps)) + 1]
         IN  IF candidate # current THEN candidate
             ELSE rotate_loop(ps, start_idx, current, offset + 1)

rotate_provider_by_cursor(r, tid) ==
    IF Len(cfg.providers) <= 1 THEN r
    ELSE LET r1 == provider_for_task(r, tid)
         IN  [r1 EXCEPT !.provider_index = @ + 1,
                        !.task_providers =
                            Put(@, tid, cfg.providers[(r1.provider_index % Len(cfg.providers)) + 1])]
rotate_provider_for_task(r, tid) ==
    IF Len(cfg.providers) <= 1 THEN r
    ELSE LET r1 == provider_for_task(r, tid)
             current == r1.task_providers[tid]
             start_idx == index_loop(cfg.providers, current, 1)
         IN  [r1 EXCEPT !.task_providers =
                 Put(@, tid, rotate_loop(cfg.providers, start_idx, current, 1))]

\* variant: the record of the first attempt is kept
save_report_keeping_first(r, slot, status, commits, error_msg, attempt, retries) ==
    IF ~cfg.artifacts_dir \/ slot.task_id \in DOMAIN r.reports THEN r
    ELSE [r EXCEPT !.reports = Put(@, slot.task_id,
            [status |-> status, commits |-> commits, errorMessage |-> error_msg,
             failureType |-> IF error_msg = {} THEN "none"
                             ELSE IF is_external_failure(error_msg) THEN "external"
                             ELSE "internal",
             attempt |-> attempt, retries |-> retries, provider |-> slot.provider])]
\* _save_report: one file per task id, rewritten by every call
save_report(r, slot, status, commits, error_msg, attempt, retries) ==
    IF ~cfg.artifacts_dir THEN r
    ELSE [r EXCEPT !.reports = Put(@, slot.task_id,
            [status |-> status, commits |-> commits, errorMessage |-> error_msg,
             failureType |-> IF error_msg = {} THEN "none"
                             ELSE IF is_external_failure(error_msg) THEN "external"
                             ELSE "internal",
             attempt |-> attempt, retries |-> retries, provider |-> slot.provider])]

(***************************************************************************)
(* Runner handlers (runner.py:801-1002)                                    *)
(***************************************************************************)
TimeoutNote == {"external failure timeout after", "timeout"}

\* runner.py:954-955: the time budget is spent once elapsed >= external_fail_timeout
budget_expired_strict(first_seen) == now - first_seen > cfg.external_fail_timeout
budget_expired(first_seen) == now - first_seen >= cfg.external_fail_timeout

\* variant: a rotation also advances the round-robin cursor
handle_failure_advancing_cursor(r, slot, err_msg, commits, allow_provider_switch) ==
    LET tid          == slot.task_id
        retries_used == Get(r.retry_counts, tid, 0)
        attempt      == retries_used + 1
        is_ext       == is_external_failure(err_msg)
        retry0       == should_retry(err_msg, retries_used)
        timed        == retry0 /\ is_ext /\ cfg.external_fail_timeout > 0
        first_seen   == Get(r.external_failure_since, tid, now)
        expired      == timed /\ budget_expired(first_seen)
        retry        == retry0 /\ ~expired
        msg          == IF expired THEN err_msg \cup TimeoutNote ELSE err_msg
        since1       == IF timed THEN Put(r.external_failure_since, tid, first_seen)
                        ELSE IF ~retry0 \/ ~is_ext THEN Pop(r.external_failure_since, tid)
                        ELSE r.external_failure_since
        r1           == [r EXCEPT !.external_failure_since = since1]
        r2           == IF allow_provider_switch /\ is_ext
                        THEN [rotate_provider_for_task(r1, tid) EXCEPT !.provider_index = @ + 1]
                        ELSE r1
        delay        == IF cfg.retry_delay > 0 THEN cfg.retry_delay ELSE 0
        r3           == [r2 EXCEPT !.retry_counts = Put(@, tid, retries_used + 1),
                                   !.retry_after = IF delay # 0 THEN Put(@, tid, now + delay) ELSE @]
        retried      == WithSched(r3, retry_task(r3.state, r3.locked, tid))
        failed       == [WithSched(r1, fail_task(r1.state, r1.locked, tid))
                            EXCEPT !.external_failure_since = Pop(@, tid)]
    IN  save_report(IF retry THEN retried ELSE failed, slot,
                    IF retry THEN "retrying" ELSE "failed",
                    commits, msg, attempt, retries_used)
\* _handle_failure
handle_failure(r, slot, err_msg, commits, allow_provider_switch) ==
    LET tid          == slot.task_id
        retries_used == Get(r.retry_counts, tid, 0)
        attempt      == retries_used + 1
        is_ext       == is_external_failure(err_msg)
        retry0       == should_retry(err_msg, retries_used)
        timed        == retry0 /\ is_ext /\ cfg.external_fail_timeout > 0
        first_seen   == Get(r.external_failure_since, tid, now)
        expired      == timed /\ budget_expired(first_seen)
        retry        == retry0 /\ ~expired
        msg          == IF expired THEN err_msg \cup TimeoutNote ELSE err_msg
        since1       == IF timed THEN Put(r.external_failure_since, tid, first_seen)
                        ELSE IF ~retry0 \/ ~is_ext THEN Pop(r.external_failure_since, tid)
                        ELSE r.external_failure_since
        r1           == [r EXCEPT !.external_failure_since = since1]
        r2           == IF allow_provider_switch /\ is_ext
                        THEN rotate_provider_for_task(r1, tid) ELSE r1
        delay        == IF cfg.retry_delay > 0 THEN cfg.retry_delay ELSE 0
        r3           == [r2 EXCEPT !.retry_counts = Put(@, tid, retries_used + 1),
                                   !.retry_after = IF delay # 0 THEN Put(@, tid, now + delay) ELSE @]
        retried      == WithSched(r3, retry_task(r3.state, r3.locked, tid))
        failed       == [WithSched(r1, fail_task(r1.state, r1.locked, tid))
                            EXCEPT !.external_failure_since = Pop(@, tid)]
    IN  save_report(IF retry THEN retried ELSE failed, slot,
                    IF retry THEN "retrying" ELSE "failed",
                    commits, msg, attempt, retries_used)

handle_success_done_before_merge(r, slot, commits, merge) ==
    LET tid      == slot.task_id
        r0       == [r EXCEPT !.external_failure_since = Pop(@, tid)]
        merge_ok == cfg.create_pr \/ merge.ok
        merge_error == IF merge.output # {} THEN merge.output ELSE {"git merge failed"}
        retries_used == Get(r0.retry_counts, tid, 0)
        done     == [WithSched(r0, complete_task(r0.state, r0.locked, tid))
                        EXCEPT !.prd_completed = @ \cup {tid}]
    IN  IF merge_ok
        THEN save_report(done, slot, "done", commits, {}, retries_used + 1, retries_used)
        ELSE handle_failure([r0 EXCEPT !.prd_completed = @ \cup {tid}],
                            slot, merge_error, commits, FALSE)
handle_success_keeps_clock(r, slot, commits, merge) ==
    LET tid      == slot.task_id
        merge_ok == cfg.create_pr \/ merge.ok
        merge_error == IF merge.output # {} THEN merge.output ELSE {"git merge failed"}
        retries_used == Get(r.retry_counts, tid, 0)
        done     == [WithSched(r, complete_task(r.state, r.locked, tid))
                        EXCEPT !.prd_completed = @ \cup {tid},
                               !.external_failure_since = Pop(@, tid)]
    IN  IF merge_ok
        THEN save_report(done, slot, "done", commits, {}, retries_used + 1, retries_used)
        ELSE handle_failure(r, slot, merge_error, commits, FALSE)
handle_success_switching(r, slot, commits, merge) ==
    LET tid      == slot.task_id
        r0       == [r EXCEPT !.external_failure_since = Pop(@, tid)]
        merge_ok == cfg.create_pr \/ merge.ok
        merge_error == IF merge.output # {} THEN merge.output ELSE {"git merge failed"}
        retries_used == Get(r0.retry_counts, tid, 0)
        done     == [WithSched(r0, complete_task(r0.state, r0.locked, tid))
                        EXCEPT !.prd_completed = @ \cup {tid}]
    IN  IF merge_ok
        THEN save_report(done, slot, "done", commits, {}, retries_used + 1, retries_used)
        ELSE handle_failure(r0, slot, merge_error, commits, TRUE)
\* _handle_success; merge is the outcome of merge_no_edit_result
handle_success(r, slot, commits, merge) ==
    LET tid      == slot.task_id
        r0       == [r EXCEPT !.external_failure_since = Pop(@, tid)]
        merge_ok == cfg.create_pr \/ merge.ok
        merge_error == IF merge.output # {} THEN merge.output ELSE {"git merge failed"}
        retries_used == Get(r0.retry_counts, tid, 0)
        done     == [WithSched(r0, complete_task(r0.state, r0.locked, tid))
                        EXCEPT !.prd_completed = @ \cup {tid}]
    IN  IF merge_ok
        THEN save_report(done, slot, "done", commits, {}, retries_used + 1, retries_used)
        ELSE handle_failure(r0, slot, merge_error, commits, FALSE)

handle_finished_any_commit(r, slot, o) ==
    IF o.rc = 0 /\ o.commits > 0
    THEN handle_success(r, slot, o.commits, o.merge)
    ELSE LET err_msg == IF o.log # {} THEN o.log
                        ELSE IF o.rc # 0 THEN {"exit code"}
                        ELSE {"agent exited without creating any commits"}
         IN  handle_failure(r, slot, err_msg, 0, TRUE)
\* _handle_finished; o is what the exited process left behind
\* (return code, commits on the branch, changed files, logs) and the merge result
handle_finished(r, slot, o) ==
    IF o.rc = 0 /\ o.commits > 0 /\ o.meaningful
    THEN handle_success(r, slot, o.commits, o.merge)
    ELSE LET err_msg == IF o.log # {} THEN o.log
                        ELSE IF o.rc # 0 THEN {"exit code"}
                        ELSE IF o.commits = 0 THEN {"agent exited without creating any commits"}
                        ELSE {"no meaningful changes"}
         IN  handle_failure(r, slot, err_msg, 0, TRUE)

\* _abort_all_active: every active slot's task is failed and reported
RECURSIVE abort_loop(_, _, _)
abort_loop(r, slots, i) ==
    IF i > Len(slots) THEN r
    ELSE LET slot == slots[i]
             retries_used == Get(r.retry_counts, slot.task_id, 0)
             r1 == WithSched(r, fail_task(r.state, r.locked, slot.task_id))
         IN  abort_loop(save_report(r1, slot, "failed", 0, {"interrupted by user (ctrl-c)"},
                                    retries_used + 1, retries_used),
                        slots, i + 1)

abort_all_active_alive_only(r, slots) ==
    abort_loop(r, SelectSeq(slots, LAMBDA s : s.proc = "alive"), 1)
abort_all_active(r, slots) == abort_loop(r, slots, 1)

\* _get_ready_tasks: the ready list without tasks still waiting out a retry delay,
\* and retry_after without the entries that have elapsed
RECURSIVE ready_tasks_loop(_, _, _)
ready_tasks_loop(rdy, ra, i) ==
    IF i > Len(rdy) THEN [ready |-> <<>>, retry_after |-> ra]
    ELSE LET tid == rdy[i]
             has == tid \in DOMAIN ra /\ ra[tid] # 0
         IN  IF has /\ ra[tid] > now
             THEN ready_tasks_loop(rdy, ra, i + 1)
             ELSE LET rest == ready_tasks_loop(rdy, IF has THEN Pop(ra, tid) ELSE ra, i + 1)
                  IN  [ready |-> <<tid>> \o rest.ready, retry_after |-> rest.retry_after]

get_ready_tasks_ignoring_delay(st, lk, ra) == [ready |-> get_ready(st, lk), retry_after |-> ra]
get_ready_tasks(st, lk, ra) == ready_tasks_loop(get_ready(st, lk), ra, 1)

(***************************************************************************)
(* What the environment can hand to the Runner                             *)
(***************************************************************************)
\* last relevant line of an agent's logs, as _extract_error_from_logs returns it
LogMsgs ==
    {{}, {"syntaxerror"}, {"rate limit"}, {"merge conflict"},
     {"blocked by policy"}, {"read-only sandbox"}, {"approval_policy"}}

MergeOk       == [ok |-> TRUE, output |-> {}]
MergeConflict == [ok |-> FALSE, output |-> {"conflict (content)", "merge conflict", "automatic merge failed"}]
MergeBlocked  == [ok |-> FALSE, output |-> {}]

OkOutcome == [rc |-> 0, commits |-> 1, meaningful |-> TRUE, log |-> {}, merge |-> MergeOk]

\* an agent that exits 0 with meaningful commits, for each merge result
CleanExits == {[OkOutcome EXCEPT !.merge = m] : m \in {MergeOk, MergeConflict, MergeBlocked}}
\* an agent that exits non-zero, or exits 0 without (meaningful) commits
BadExits ==
    {[rc |-> 1, commits |-> 0, meaningful |-> FALSE, log |-> l, merge |-> MergeOk] : l \in LogMsgs}
    \cup {[rc |-> 0, commits |-> 0, meaningful |-> FALSE, log |-> l, merge |-> MergeOk] : l \in {{}, {"rate limit"}}}
    \cup {[rc |-> 0, commits |-> 1, meaningful |-> FALSE, log |-> {}, merge |-> MergeOk]}
Outcomes == CleanExits \cup BadExits

\* what a killed process leaves behind: Popen.kill() does not set returncode, so
\* _handle_finished reads None (written -1); the worktree holds no commits
KilledOutcomes ==
    {[rc |-> -1, commits |-> 0, meaningful |-> FALSE, log |-> l, merge |-> MergeOk] : l \in LogMsgs}

\* how _launch_agent can end: slot recorded, or one of its four early returns
LaunchResults == {"started", "engine_error", "unavailable", "worktree_error", "os_error"}

(***************************************************************************)
(* Runner.run / _main_loop, one action per step of the control thread      *)
(***************************************************************************)
Finish(res) == pc' = "done" /\ result' = res

\* runner.py:517-519
StopAtTop ==
    /\ pc = "top" /\ stop_requested
    /\ Apply(abort_all_active(Cur, active))
    /\ active' = <<>>
    /\ Finish("failure")
    /\ UNCHANGED <<tf, cfg, iteration, stop_requested, now, to_start, reap_i,
                   still_active, launches, first_failure_at, retried_at, repo, last_op>>

\* runner.py:522, 774
BeginReap ==
    /\ pc = "top" /\ ~stop_requested
    /\ pc' = "reap" /\ reap_i' = 1 /\ still_active' = <<>>
    /\ UNCHANGED <<tf, cfg, state, locked, active, retry_counts, retry_after,
                   external_failure_since, task_providers, provider_index, iteration,
                   stop_requested, now, to_start, result, reports, prd_completed,
                   launches, first_failure_at, retried_at, repo, last_op>>

\* the slot after the mtime check of runner.py:780-784
Refreshed(slot) ==
    IF slot.log_mtime > slot.last_log_mtime
    THEN [slot EXCEPT !.last_log_mtime = slot.log_mtime, !.last_activity = now]
    ELSE slot

Stalled(slot) == now - Refreshed(slot).last_activity > cfg.stalled_timeout

ReapUnchanged == UNCHANGED <<tf, cfg, active, iteration, stop_requested, now, pc,
                             to_start, result, launches, repo>>

\* history: remember when the first failed attempt of a task was handled, and
\* when the attempt that sent it back to Pending was handled
NoteFailure(tid) ==
    /\ first_failure_at' = IF state'[tid] # DONE /\ tid \notin DOMAIN first_failure_at
                           THEN Put(first_failure_at, tid, now)
                           ELSE first_failure_at
    /\ retried_at' = IF state'[tid] = PENDING THEN Put(retried_at, tid, now) ELSE retried_at

\* runner.py:776-795, process still running and not idle for too long
ReapAlive ==
    /\ pc = "reap" /\ reap_i <= Len(active)
    /\ active[reap_i].proc = "alive"
    /\ ~Stalled(active[reap_i])
    /\ active' = [active EXCEPT ![reap_i] = Refreshed(active[reap_i])]
    /\ still_active' = Append(still_active, reap_i)
    /\ reap_i' = reap_i + 1
    /\ UNCHANGED <<state, locked, retry_counts, retry_after, external_failure_since,
                   task_providers, provider_index, reports, prd_completed>>
    /\ UNCHANGED <<tf, cfg, iteration, stop_requested, now, pc, to_start, result,
                   launches, first_failure_at, retried_at, repo, last_op>>

\* runner.py:786-797, idle past stalled_timeout: kill() leaves returncode None
ReapStalled ==
    /\ pc = "reap" /\ reap_i <= Len(active)
    /\ active[reap_i].proc = "alive"
    /\ Stalled(active[reap_i])
    /\ \E o \in KilledOutcomes :
          /\ Apply(handle_finished(Cur, active[reap_i], o))
          /\ last_op' = <<"stalled", active[reap_i].task_id, o>>
    /\ NoteFailure(active[reap_i].task_id)
    /\ reap_i' = reap_i + 1
    /\ UNCHANGED still_active
    /\ ReapUnchanged

\* variant: a handled slot stays in the active list
ReapExited_keeping_slot(O) ==
    /\ pc = "reap" /\ reap_i <= Len(active)
    /\ active[reap_i].proc = "exited"
    /\ \E o \in O :
          /\ Apply(handle_finished(Cur, active[reap_i], o))
          /\ last_op' = <<"exited", active[reap_i].task_id, o>>
    /\ NoteFailure(active[reap_i].task_id)
    /\ reap_i' = reap_i + 1
    /\ still_active' = Append(still_active, reap_i)
    /\ ReapUnchanged
\* runner.py:777, 797: the process has exited
ReapExited(O) ==
    /\ pc = "reap" /\ reap_i <= Len(active)
    /\ active[reap_i].proc = "exited"
    /\ \E o \in O :
          /\ Apply(handle_finished(Cur, active[reap_i], o))
          /\ last_op' = <<"exited", active[reap_i].task_id, o>>
    /\ NoteFailure(active[reap_i].task_id)
    /\ reap_i' = reap_i + 1
    /\ UNCHANGED still_active
    /\ ReapUnchanged

\* the slots _reap_finished keeps (runner.py:799)
Kept == [k \in 1..Len(still_active) |-> active[still_active[k]]]

EndReap_ignoring_stop ==
    /\ pc = "reap" /\ reap_i > Len(active)
    /\ active' = Kept
    /\ pc' = "check"
    /\ UNCHANGED <<tf, cfg, state, locked, retry_counts, retry_after,
                   external_failure_since, task_providers, provider_index, iteration,
                   stop_requested, now, to_start, reap_i, still_active, result,
                   reports, prd_completed, launches, first_failure_at, retried_at, repo, last_op>>
\* runner.py:799, 524: the reap pass ends and the stop flag is still clear
EndReap ==
    /\ pc = "reap" /\ reap_i > Len(active)
    /\ ~stop_requested
    /\ active' = Kept
    /\ pc' = "check"
    /\ UNCHANGED <<tf, cfg, state, locked, retry_counts, retry_after,
                   external_failure_since, task_providers, provider_index, iteration,
                   stop_requested, now, to_start, reap_i, still_active, result,
                   reports, prd_completed, launches, first_failure_at, retried_at, repo, last_op>>

\* runner.py:799, 524-526: the reap pass ends and the stop flag is set
StopAfterReap ==
    /\ pc = "reap" /\ reap_i > Len(active)
    /\ stop_requested
    /\ Apply(abort_all_active(Cur, Kept))
    /\ active' = <<>>
    /\ Finish("failure")
    /\ UNCHANGED <<tf, cfg, iteration, stop_requested, now, to_start, reap_i,
                   still_active, launches, first_failure_at, retried_at, repo, last_op>>

CheckUnchanged == UNCHANGED <<tf, cfg, state, locked, active, retry_counts,
                              external_failure_since, task_providers, provider_index,
                              iteration, stop_requested, now, reap_i, still_active,
                              reports, prd_completed, launches, first_failure_at, retried_at, repo, last_op>>

FinishRun_ignoring_failed ==
    /\ pc = "check"
    /\ count_pending(state) = 0 /\ count_running(state) = 0
    /\ Finish("success")
    /\ UNCHANGED <<retry_after, to_start>>
    /\ CheckUnchanged
\* runner.py:532-540, 564
FinishRun ==
    /\ pc = "check"
    /\ count_pending(state) = 0 /\ count_running(state) = 0
    /\ Finish(IF count_failed(state) > 0 THEN "failure" ELSE "success")
    /\ UNCHANGED <<retry_after, to_start>>
    /\ CheckUnchanged

NotFinished == ~(count_pending(state) = 0 /\ count_running(state) = 0)

\* variant: the run is given up as soon as a task is Failed
ReportDeadlock_on_any_failure ==
    /\ pc = "check"
    /\ NotFinished
    /\ count_failed(state) > 0
    /\ Finish("raised")
    /\ UNCHANGED <<retry_after, to_start>>
    /\ CheckUnchanged
\* runner.py:542-544, 1071-1074: _report_deadlock calls Scheduler.pending_task_ids,
\* which the Scheduler does not define, so the AttributeError leaves run()
ReportDeadlock ==
    /\ pc = "check"
    /\ NotFinished
    /\ check_deadlock(state, locked)
    /\ Finish("raised")
    /\ UNCHANGED <<retry_after, to_start>>
    /\ CheckUnchanged

max_reached == cfg.max_iterations > 0 /\ iteration >= cfg.max_iterations

\* runner.py:546-552
MaxIterationsStop ==
    /\ pc = "check"
    /\ NotFinished
    /\ ~check_deadlock(state, locked)
    /\ max_reached /\ count_pending(state) > 0 /\ count_running(state) = 0
    /\ Finish("failure")
    /\ UNCHANGED <<retry_after, to_start>>
    /\ CheckUnchanged

PlanLaunch_ignoring_running ==
    /\ pc = "check"
    /\ NotFinished
    /\ ~check_deadlock(state, locked)
    /\ ~(max_reached /\ count_pending(state) > 0 /\ count_running(state) = 0)
    /\ LET slots == cfg.max_parallel
           rt    == get_ready_tasks(state, locked, retry_after)
       IN  IF slots > 0 /\ ~max_reached
           THEN /\ to_start' = Take(rt.ready, slots)
                /\ retry_after' = rt.retry_after
           ELSE /\ to_start' = <<>>
                /\ UNCHANGED retry_after
    /\ pc' = IF to_start' = <<>> THEN "sleep" ELSE "launch"
    /\ UNCHANGED result
    /\ CheckUnchanged
\* runner.py:554-558: the ready list is computed once per iteration
PlanLaunch ==
    /\ pc = "check"
    /\ NotFinished
    /\ ~check_deadlock(state, locked)
    /\ ~(max_reached /\ count_pending(state) > 0 /\ count_running(state) = 0)
    /\ LET slots == cfg.max_parallel - count_running(state)
           rt    == get_ready_tasks(state, locked, retry_after)
       IN  IF slots > 0 /\ ~max_reached
           THEN /\ to_start' = Take(rt.ready, slots)
                /\ retry_after' = rt.retry_after
           ELSE /\ to_start' = <<>>
                /\ UNCHANGED retry_after
    /\ pc' = IF to_start' = <<>> THEN "sleep" ELSE "launch"
    /\ UNCHANGED result
    /\ CheckUnchanged

NewSlot(tid, num, provider) ==
    [task_id |-> tid, agent_num |-> num, provider |-> provider, proc |-> "alive",
     last_activity |-> now, last_log_mtime |-> 0, log_mtime |-> now]

launch_agent_leaving_running(r, slots, tid, how) ==
    LET r1 == WithSched(r, start_task(r.state, r.locked, tid))
        r2 == provider_for_task(r1, tid)
    IN  IF how = "started"
        THEN [r |-> r2,
              active |-> Append(slots, NewSlot(tid, iteration + 1, r2.task_providers[tid]))]
        ELSE [r |-> r2, active |-> slots]
\* _launch_agent: the new runner record and slot list
launch_agent(r, slots, tid, how) ==
    LET r1 == WithSched(r, start_task(r.state, r.locked, tid))
        r2 == provider_for_task(r1, tid)
    IN  IF how = "started"
        THEN [r |-> r2,
              active |-> Append(slots, NewSlot(tid, iteration + 1, r2.task_providers[tid]))]
        ELSE [r |-> WithSched(r2, fail_task(r2.state, r2.locked, tid)), active |-> slots]

\* runner.py:559-560, one pass of the for loop over to_start
Launch(L) ==
    /\ pc = "launch" /\ to_start # <<>>
    /\ \E how \in L :
          LET res == launch_agent(Cur, active, Head(to_start), how)
          IN  /\ Apply(res.r) /\ active' = res.active
              /\ last_op' = <<"launch", Head(to_start), how>>
    /\ iteration' = iteration + 1
    /\ launches' = [launches EXCEPT ![Head(to_start)] = @ + 1]
    /\ to_start' = Tail(to_start)
    /\ pc' = IF Tail(to_start) = <<>> THEN "sleep" ELSE "launch"
    /\ retried_at' = Pop(retried_at, Head(to_start))
    /\ UNCHANGED <<tf, cfg, stop_requested, now, reap_i, still_active, result, first_failure_at, repo>>

\* runner.py:562
Sleep ==
    /\ pc = "sleep"
    /\ pc' = "top"
    /\ UNCHANGED <<tf, cfg, state, locked, active, retry_counts, retry_after,
                   external_failure_since, task_providers, provider_index, iteration,
                   stop_requested, now, to_start, reap_i, still_active, result,
                   reports, prd_completed, launches, first_failure_at, retried_at, repo, last_op>>

(***************************************************************************)
(* The environment: agent processes, signals, the clock                    *)
(***************************************************************************)
LoopAlive == pc \in {"top", "reap", "check", "launch", "sleep"}

EnvUnchanged == UNCHANGED <<tf, cfg, state, locked, retry_counts, retry_after,
                            external_failure_since, task_providers, provider_index,
                            iteration, pc, to_start, reap_i, still_active, result,
                            reports, prd_completed, launches, first_failure_at, retried_at, repo, last_op>>

\* an agent subprocess exits (subprocess.Popen.poll() stops returning None)
AgentExit ==
    /\ LoopAlive
    /\ \E i \in 1..Len(active) :
          /\ active[i].proc = "alive"
          /\ active' = [active EXCEPT ![i].proc = "exited"]
    /\ UNCHANGED <<stop_requested, now>>
    /\ EnvUnchanged

\* an agent subprocess writes to its stderr log file (the mtime is read only to
\* detect stalls, so it is tracked when a stall can happen before the clock stops)
AgentWritesLog ==
    /\ LoopAlive /\ cfg.stalled_timeout < MaxTime
    /\ \E i \in 1..Len(active) :
          /\ active[i].proc = "alive"
          /\ active[i].log_mtime < now
          /\ active' = [active EXCEPT ![i].log_mtime = now]
    /\ UNCHANGED <<stop_requested, now>>
    /\ EnvUnchanged

\* _on_signal (runner.py:590-592)
Signal ==
    /\ LoopAlive /\ ~stop_requested
    /\ stop_requested' = TRUE
    /\ UNCHANGED <<active, now>>
    /\ EnvUnchanged

\* the configuration compares the clock against a delay or timeout that can
\* elapse before the clock stops
ClockMatters ==
    \/ cfg.retry_delay > 0 /\ cfg.max_retries > 0
    \/ cfg.external_fail_timeout > 0 /\ cfg.max_retries > 0
    \/ cfg.stalled_timeout < MaxTime

\* time passes while the control thread sleeps (runner.py:562)
Tick ==
    /\ LoopAlive /\ now < MaxTime /\ ClockMatters
    /\ now' = now + 1
    /\ UNCHANGED <<active, stop_requested>>
    /\ EnvUnchanged

(***************************************************************************)
(* The task branch of a successful attempt: worktree, sanitize, merge      *)
(* (runner.py:339-384, 700-721, 836-860; git_ops.py:59-65, 85-97, 125-128) *)
(***************************************************************************)
\* a tree maps each path to the content it has there (1, 2), or to 0 when it
\* has none
Files == {"tasks.yaml", "progress.txt", "app.py"}

FORBIDDEN_TASK_FILES == {"tasks.yaml", "progress.txt"}

\* git diff --name-only base..HEAD: the paths on which the two tips differ
changed_files(base, head) == {f \in Files : base[f] # head[f]}

\* "tasks.yaml" not in f and "progress.txt" not in f
meaningful_changes(base, head) ==
    \E f \in changed_files(base, head) : f \notin {"tasks.yaml", "progress.txt"}

has_dirty_worktree(rp) == rp.work # rp.head

\* git add . ; git commit
add_and_commit(rp) == [rp EXCEPT !.head = rp.work, !.committed = TRUE]

\* variant: a path the branch created is left on it
sanitize_restoring_only(rp) ==
    LET off == changed_files(rp.base, rp.head) \cap FORBIDDEN_TASK_FILES
        restored == [rp EXCEPT !.work = [f \in Files |->
                        IF f \in off /\ rp.base[f] # 0 THEN rp.base[f] ELSE rp.work[f]],
                               !.sanitized = off]
    IN  IF off = {} THEN [rp EXCEPT !.sanitized = {}]
        ELSE IF has_dirty_worktree(restored) THEN add_and_commit(restored) ELSE restored
\* git checkout base -- rel when base has the path, unlink and git rm when it
\* has not; one commit when that left the worktree dirty
sanitize_forbidden_task_files(rp) ==
    LET off == changed_files(rp.base, rp.head) \cap FORBIDDEN_TASK_FILES
        restored == [rp EXCEPT !.work = [f \in Files |->
                        IF f \in off THEN rp.base[f] ELSE rp.work[f]],
                               !.sanitized = off]
    IN  IF off = {} THEN [rp EXCEPT !.sanitized = {}]
        ELSE IF has_dirty_worktree(restored) THEN add_and_commit(restored) ELSE restored

\* git merge --no-edit: a path conflicts when both sides changed it since the
\* merge base and disagree
merge_no_edit_result(rp) ==
    IF \E f \in Files :
          rp.base[f] # rp.head[f] /\ rp.base[f] # rp.fork[f] /\ rp.head[f] # rp.fork[f]
    THEN [rp EXCEPT !.phase = "conflict"]          \* followed by git merge --abort
    ELSE [rp EXCEPT !.phase = "merged",
                    !.base = [f \in Files |->
                                IF rp.head[f] # rp.fork[f] THEN rp.head[f] ELSE rp.base[f]]]

\* the repository before any worktree exists
NoWorktree ==
    LET tree == [f \in Files |-> IF f = "app.py" THEN 1 ELSE 0]
    IN  [fork |-> tree, base |-> tree, head |-> tree, work |-> tree,
         committed |-> FALSE, sanitized |-> {}, phase |-> "none"]

GitUnchanged ==
    UNCHANGED <<tf, cfg, state, locked, active, retry_counts, retry_after,
                external_failure_since, task_providers, provider_index, iteration,
                stop_requested, now, pc, to_start, reap_i, still_active, result,
                reports, prd_completed, launches, first_failure_at, retried_at, last_op>>

\* create_agent_worktree, then the task file is copied in and progress.txt touched
CreateWorktree ==
    /\ pc = "git" /\ repo.phase # "open"
    /\ \E copy \in 1..2 :
          repo' = [fork |-> repo.base, base |-> repo.base, head |-> repo.base,
                   work |-> [repo.base EXCEPT !["tasks.yaml"] = copy,
                                              !["progress.txt"] = IF @ = 0 THEN 1 ELSE @],
                   committed |-> FALSE, sanitized |-> {}, phase |-> "open"]
    /\ GitUnchanged

\* the agent writes or deletes a file in its worktree
AgentWrites ==
    /\ pc = "git" /\ repo.phase = "open"
    /\ \E f \in Files, v \in {0, 2} : repo' = [repo EXCEPT !.work[f] = v]
    /\ GitUnchanged

AgentCommits ==
    /\ pc = "git" /\ repo.phase = "open" /\ has_dirty_worktree(repo)
    /\ repo' = add_and_commit(repo)
    /\ GitUnchanged

\* meanwhile a commit lands on the base branch
BaseAdvances ==
    /\ pc = "git" /\ repo.phase = "open"
    /\ \E f \in Files, v \in {0, 1} : repo' = [repo EXCEPT !.base[f] = v]
    /\ GitUnchanged

\* _handle_finished reaches _handle_success (exit 0, commits > 0, meaningful
\* changes), which auto-commits, sanitizes and merges
HandleSuccessGit ==
    /\ pc = "git" /\ repo.phase = "open"
    /\ repo.committed /\ meaningful_changes(repo.base, repo.head)
    /\ LET committed == IF has_dirty_worktree(repo) THEN add_and_commit(repo) ELSE repo
       IN  repo' = merge_no_edit_result(sanitize_forbidden_task_files(committed))
    /\ GitUnchanged

(***************************************************************************)
(* Task graphs and configurations explored                                 *)
(***************************************************************************)
Graph(ts, d, m, c) == [tasks |-> ts, depends_on |-> d, mutex |-> m, completed |-> c]
NoneCompleted(ts) == [t \in SeqToSet(ts) |-> FALSE]
Fn3(a, b, c) == ("A" :> a) @@ ("B" :> b) @@ ("C" :> c)
ABC == <<"A", "B", "C">>

\* independent tasks, two of them sharing a mutex
GraphSharedMutex == Graph(ABC, Fn3(<<>>, <<>>, <<"">>),
                          Fn3(<<"db">>, <<"", "db">>, <<>>), NoneCompleted(ABC))
\* variant: the chain closed into a cycle, as validation would reject it
GraphChain_cyclic == Graph(ABC, Fn3(<<"C">>, <<"A">>, <<"A", "", "B">>),
                           Fn3(<<"db">>, <<>>, <<"db">>), NoneCompleted(ABC))
\* a chain whose ends share a mutex
GraphChain == Graph(ABC, Fn3(<<>>, <<"A">>, <<"A", "", "B">>),
                    Fn3(<<"db">>, <<>>, <<"db">>), NoneCompleted(ABC))
\* a fork whose branches share a mutex
GraphFork == Graph(ABC, Fn3(<<>>, <<"A">>, <<"A">>),
                   Fn3(<<>>, <<"fs", "db">>, <<"db">>), NoneCompleted(ABC))
\* two tasks, the second depending on the first
AB == <<"A", "B">>
GraphPair == Graph(AB, ("A" :> <<>>) @@ ("B" :> <<"A">>),
                   ("A" :> <<>>) @@ ("B" :> <<>>), NoneCompleted(AB))
\* two independent tasks
GraphTwo == Graph(AB, ("A" :> <<>>) @@ ("B" :> <<>>),
                  ("A" :> <<>>) @@ ("B" :> <<>>), NoneCompleted(AB))

\* config.py:31-36 with the run's artifact directory configured
DefaultCfg ==
    [max_parallel |-> 3, max_iterations |-> 0, max_retries |-> 3, retry_delay |-> 5,
     external_fail_timeout |-> 300, stalled_timeout |-> 600, create_pr |-> FALSE,
     artifacts_dir |-> TRUE, providers |-> <<"claude">>]

SchedulingCfgs ==
    {[DefaultCfg EXCEPT !.max_parallel = p, !.max_retries = r, !.retry_delay = 0,
                        !.external_fail_timeout = 0, !.artifacts_dir = FALSE]
        : p \in 1..MaxParallel, r \in 0..1}
RetryCfgs ==
    {[DefaultCfg EXCEPT !.max_parallel = 1, !.max_retries = r, !.retry_delay = d,
                        !.external_fail_timeout = t, !.providers = <<"claude", "codex">>]
        : r \in -1..MaxRetries, d \in 0..1, t \in 0..2}
StallCfgs ==
    {[DefaultCfg EXCEPT !.max_parallel = 2, !.max_retries = 1, !.retry_delay = 0,
                        !.external_fail_timeout = 0, !.stalled_timeout = 1]}
\* runs with an iteration cap (--max-iterations)
IterationCfgs ==
    {[DefaultCfg EXCEPT !.max_parallel = p, !.max_iterations = n, !.max_retries = 1,
                        !.retry_delay = 0, !.external_fail_timeout = 0,
                        !.artifacts_dir = FALSE]
        : p \in 1..MaxParallel, n \in 1..MaxIterations}

\* a single task
GraphOne == Graph(<<"A">>, ("A" :> <<>>), ("A" :> <<>>), NoneCompleted(<<"A">>))

\* retries on two dependent tasks without a time budget, on one task with it
Scenarios ==
    ({GraphSharedMutex, GraphChain, GraphFork} \X SchedulingCfgs)
    \cup ({GraphPair} \X {c \in RetryCfgs : c.external_fail_timeout = 0})
    \cup ({GraphOne} \X {c \in RetryCfgs : c.external_fail_timeout > 0})
    \cup ({GraphPair} \X StallCfgs)
    \cup ({GraphPair, GraphTwo} \X IterationCfgs)

\* Runner.__init__ over Scheduler.__init__
RunnerInit(g, c) ==
    /\ tf = g
    /\ cfg = c
    /\ state = SchedulerInit(g)
    /\ locked = EmptyDict
    /\ active = <<>>
    /\ retry_counts = EmptyDict
    /\ retry_after = EmptyDict
    /\ external_failure_since = EmptyDict
    /\ task_providers = EmptyDict
    /\ provider_index = 0
    /\ iteration = 0
    /\ stop_requested = FALSE
    /\ now = 1
    /\ to_start = <<>>
    /\ reap_i = 1
    /\ still_active = <<>>
    /\ result = "none"
    /\ reports = EmptyDict
    /\ prd_completed = {}
    /\ launches = [t \in SeqToSet(g.tasks) |-> 0]
    /\ first_failure_at = EmptyDict
    /\ retried_at = EmptyDict
    /\ repo = NoWorktree
    /\ last_op = <<"init", "">>

Init == \E sc \in Scenarios : RunnerInit(sc[1], sc[2]) /\ pc = "top"

Next ==
    \/ StopAtTop
    \/ BeginReap
    \/ ReapAlive
    \/ ReapStalled
    \/ ReapExited(Outcomes)
    \/ EndReap
    \/ StopAfterReap
    \/ FinishRun
    \/ ReportDeadlock
    \/ MaxIterationsStop
    \/ PlanLaunch
    \/ Launch(LaunchResults)
    \/ Sleep
    \/ AgentExit
    \/ AgentWritesLog
    \/ Signal
    \/ Tick

Spec == Init /\ [][Next]_vars

(***************************************************************************)
(* The Scheduler on its own: callers applying its transitions directly     *)
(***************************************************************************)
SchedDeps ==
    {Fn3(a, b, c) : a \in {<<>>, <<"">>}, b \in {<<>>, <<"A">>},
                    c \in {<<"A", "B">>, <<"", "B">>, <<"Z">>}}
SchedMutexes ==
    {Fn3(a, b, c) : a \in {<<"db">>, <<"fs", "db">>}, b \in {<<>>, <<"", "db">>},
                    c \in {<<"fs">>, <<"db">>}}
SchedCompleted == {NoneCompleted(ABC), [NoneCompleted(ABC) EXCEPT !["A"] = TRUE]}
SchedGraphs ==
    {Graph(ABC, d, m, c) : d \in SchedDeps, m \in SchedMutexes, c \in SchedCompleted}
    \cup {GraphPair, GraphTwo}

SchedInit == \E g \in SchedGraphs : RunnerInit(g, DefaultCfg) /\ pc = "api"

Call(op, tid, s) ==
    /\ pc = "api"
    /\ state' = s.state
    /\ locked' = s.locked
    /\ last_op' = <<op, tid>>
    /\ UNCHANGED <<tf, cfg>>
    /\ UNCHANGED runnerVars

\* the caller discipline of the Runner: start what get_ready() returned in the
\* current state, finish what is Running
SchedStart ==
    \E tid \in SeqToSet(get_ready(state, locked)) :
        Call("start_task", tid, start_task(state, locked, tid))
SchedComplete ==
    \E tid \in TaskIds : state[tid] = RUNNING
        /\ Call("complete_task", tid, complete_task(state, locked, tid))
SchedFail ==
    \E tid \in TaskIds : state[tid] = RUNNING
        /\ Call("fail_task", tid, fail_task(state, locked, tid))
SchedRetry ==
    \E tid \in TaskIds : state[tid] = RUNNING
        /\ Call("retry_task", tid, retry_task(state, locked, tid))

SchedNext == SchedStart \/ SchedComplete \/ SchedFail \/ SchedRetry
SchedSpec == SchedInit /\ [][SchedNext]_vars

\* the same discipline, plus complete_task repeated on a task that is already Done
CompleteAgain ==
    \E tid \in TaskIds : state[tid] = DONE
        /\ Call("complete_task", tid, complete_task(state, locked, tid))

RecompleteNext == SchedStart \/ SchedComplete \/ SchedFail \/ SchedRetry \/ CompleteAgain
RecompleteSpec == SchedInit /\ [][RecompleteNext]_vars

\* any transition on any task, in any order
ApiStart    == \E tid \in TaskIds : Call("start_task", tid, start_task(state, locked, tid))
ApiComplete == \E tid \in TaskIds : Call("complete_task", tid, complete_task(state, locked, tid))
ApiFail     == \E tid \in TaskIds : Call("fail_task", tid, fail_task(state, locked, tid))
ApiRetry    == \E tid \in TaskIds : Call("retry_task", tid, retry_task(state, locked, tid))

ApiNext == ApiStart \/ ApiComplete \/ ApiFail \/ ApiRetry
ApiSpec == SchedInit /\ [][ApiNext]_vars

\* the queries read _state and _locked and return a value (scheduler.py:93-100, 127-166)
ApiQuery ==
    \/ \E op \in {"get_ready", "check_deadlock"} :
          Call(op, "", [state |-> state, locked |-> locked])
    \/ \E op \in {"explain_block", "has_failed_deps"}, tid \in TaskIds :
          Call(op, tid, [state |-> state, locked |-> locked])

QuerySpec == SchedInit /\ [][ApiNext \/ ApiQuery]_vars

(***************************************************************************)
(* The five-task graph of the end-to-end test, every attempt succeeding    *)
(***************************************************************************)
E2ETasks == <<"SETUP-001", "SETUP-002", "TASK-001", "TASK-002", "TASK-003">>
E2EDeps ==
    [t \in SeqToSet(E2ETasks) |->
        IF t = "TASK-002" THEN <<"SETUP-001">>
        ELSE IF t = "TASK-003" THEN <<"SETUP-001", "SETUP-002", "TASK-001", "TASK-002">>
        ELSE <<>>]
E2EGraph == Graph(E2ETasks, E2EDeps, [t \in SeqToSet(E2ETasks) |-> <<>>], NoneCompleted(E2ETasks))
E2ECfgs == {[DefaultCfg EXCEPT !.max_parallel = 3, !.max_retries = r, !.retry_delay = d]
               : r \in {0, MaxRetries}, d \in 0..1}

E2EInit == \E c \in E2ECfgs : RunnerInit(E2EGraph, c) /\ pc = "top"

E2EControl ==
    \/ BeginReap
    \/ ReapAlive
    \/ ReapExited({OkOutcome})
    \/ EndReap
    \/ FinishRun
    \/ PlanLaunch
    \/ Launch({"started"})
    \/ Sleep

E2ENext == E2EControl \/ AgentExit \/ Tick

E2ESpec == E2EInit /\ [][E2ENext]_vars

\* the control thread keeps running and every launched agent eventually exits
E2ELive == E2ESpec /\ WF_vars(E2EControl) /\ WF_vars(AgentExit)

(***************************************************************************)
(* A task whose every attempt fails with a rate-limit message              *)
(***************************************************************************)
RateLimitExits ==
    {[rc |-> 1, commits |-> 0, meaningful |-> FALSE, log |-> {"rate limit"}, merge |-> MergeOk],
     [rc |-> 0, commits |-> 0, meaningful |-> FALSE, log |-> {"rate limit", "429"}, merge |-> MergeOk]}

RateLimitCfgs ==
    {[DefaultCfg EXCEPT !.max_parallel = p, !.max_retries = r, !.retry_delay = d,
                        !.external_fail_timeout = t, !.providers = <<"claude", "codex">>]
        : p \in 1..MaxParallel, r \in 0..MaxRetries, d \in 0..1, t \in 0..2}

\* two dependent tasks under every setting; two concurrent tasks without a
\* retry delay and with at most one retry
RateLimitScenarios ==
    ({GraphPair} \X RateLimitCfgs)
    \cup ({GraphTwo} \X {c \in RateLimitCfgs : c.retry_delay = 0 /\ c.max_retries <= 1})

RateLimitInit ==
    \E s \in RateLimitScenarios : RunnerInit(s[1], s[2]) /\ pc = "top"

RateLimitNext ==
    \/ BeginReap
    \/ ReapAlive
    \/ ReapExited(RateLimitExits)
    \/ EndReap
    \/ FinishRun
    \/ ReportDeadlock
    \/ PlanLaunch
    \/ Launch({"started"})
    \/ Sleep
    \/ AgentExit
    \/ Tick

RateLimitSpec == RateLimitInit /\ [][RateLimitNext]_vars

(***************************************************************************)
(* Several providers: first assignment, rotation on retry                  *)
(***************************************************************************)
\* three independent tasks
GraphThree == Graph(ABC, Fn3(<<>>, <<>>, <<>>), Fn3(<<>>, <<>>, <<>>), NoneCompleted(ABC))

\* provider lists as _normalize_providers leaves them (order and repeats kept)
ProviderLists ==
    {<<"claude">>, <<"claude", "codex">>, <<"claude", "codex", "gemini">>,
     <<"codex", "codex", "claude">>}

\* one agent at a time, enough retries to walk once around the longest provider list
RotationCfgs ==
    {[DefaultCfg EXCEPT !.max_parallel = 1, !.max_retries = MaxRetries + 1,
                        !.retry_delay = 0, !.external_fail_timeout = 0,
                        !.artifacts_dir = FALSE, !.providers = ps]
        : ps \in ProviderLists}
\* more tasks than providers, one retry each
StickyCfgs ==
    {[DefaultCfg EXCEPT !.max_parallel = p, !.max_retries = 1,
                        !.retry_delay = 0, !.external_fail_timeout = 0,
                        !.artifacts_dir = FALSE, !.providers = ps]
        : p \in 1..MaxParallel, ps \in ProviderLists}
ProviderScenarios == ({GraphOne} \X RotationCfgs) \cup ({GraphThree} \X StickyCfgs)

\* success, a merge conflict, a rate-limit failure, an internal failure
ProviderExits ==
    {OkOutcome, [OkOutcome EXCEPT !.merge = MergeConflict],
     [rc |-> 1, commits |-> 0, meaningful |-> FALSE, log |-> {"rate limit"}, merge |-> MergeOk],
     [rc |-> 1, commits |-> 0, meaningful |-> FALSE, log |-> {"syntaxerror"}, merge |-> MergeOk]}

ProviderInit == \E sc \in ProviderScenarios : RunnerInit(sc[1], sc[2]) /\ pc = "top"

ProviderNext ==
    \/ BeginReap
    \/ ReapAlive
    \/ ReapExited(ProviderExits)
    \/ EndReap
    \/ FinishRun
    \/ PlanLaunch
    \/ Launch({"started", "unavailable"})
    \/ Sleep
    \/ AgentExit

ProviderSpec == ProviderInit /\ [][ProviderNext]_vars

(***************************************************************************)
(* A run resumed on a task graph in which some tasks are already completed *)
(***************************************************************************)
Completed(g, done) == [g EXCEPT !.completed = [t \in SeqToSet(g.tasks) |-> t \in done]]

ResumedGraphs ==
    {Completed(GraphPair, {"A"}), Completed(GraphChain, {"A"}),
     Completed(GraphFork, {"A", "C"}), Completed(GraphSharedMutex, {"B"}),
     Completed(GraphTwo, {"A", "B"})}

ResumeInit == \E g \in ResumedGraphs, c \in SchedulingCfgs : RunnerInit(g, c) /\ pc = "top"

ResumeNext ==
    \/ BeginReap
    \/ ReapAlive
    \/ ReapExited(ProviderExits)
    \/ EndReap
    \/ FinishRun
    \/ ReportDeadlock
    \/ PlanLaunch
    \/ Launch({"started", "unavailable"})
    \/ Sleep
    \/ AgentExit

ResumeSpec == ResumeInit /\ [][ResumeNext]_vars

(***************************************************************************)
(* One task branch after another, from worktree to merge                   *)
(***************************************************************************)
GitInit == RunnerInit(GraphOne, DefaultCfg) /\ pc = "git"
GitNext == CreateWorktree \/ AgentWrites \/ AgentCommits \/ BaseAdvances \/ HandleSuccessGit
GitSpec == GitInit /\ [][GitNext]_vars

(***************************************************************************)
(* A run left alone: no stop request, no iteration cap, agents that exit   *)
(***************************************************************************)
\* --max-parallel takes any integer (cli.py:139)
UnattendedCfgs ==
    {[DefaultCfg EXCEPT !.max_parallel = p, !.max_retries = r, !.retry_delay = 0,
                        !.external_fail_timeout = 0, !.artifacts_dir = FALSE]
        : p \in 0..MaxParallel, r \in 0..1}

\* an attempt that succeeds, one that is retried, one that fails for good
UnattendedExits ==
    {OkOutcome,
     [rc |-> 1, commits |-> 0, meaningful |-> FALSE, log |-> {"rate limit"}, merge |-> MergeOk],
     [rc |-> 1, commits |-> 0, meaningful |-> FALSE, log |-> {"syntaxerror"}, merge |-> MergeOk]}

UnattendedInit ==
    \E g \in {GraphTwo, GraphPair, GraphFork}, c \in UnattendedCfgs :
        RunnerInit(g, c) /\ pc = "top"

UnattendedControl ==
    \/ BeginReap
    \/ ReapAlive
    \/ ReapExited(UnattendedExits)
    \/ EndReap
    \/ FinishRun
    \/ ReportDeadlock
    \/ PlanLaunch
    \/ Launch({"started", "unavailable"})
    \/ Sleep

UnattendedSpec == UnattendedInit /\ [][UnattendedControl \/ AgentExit]_vars

\* the control thread keeps polling and every agent process eventually exits
UnattendedLive == UnattendedSpec /\ WF_vars(UnattendedControl) /\ WF_vars(AgentExit)

(***************************************************************************)
(* Properties                                                              *)
(***************************************************************************)
DepsOf(t)  == Get(tf.depends_on, t, <<>>)
MutexOf(t) == Get(tf.mutex, t, <<>>)
SharedMutexes(a, b) == (SeqToSet(MutexOf(a)) \cap SeqToSet(MutexOf(b))) \ {""}
AllDepsDone(st, t) ==
    \A i \in 1..Len(DepsOf(t)) : DepsOf(t)[i] # "" => Get(st, DepsOf(t)[i], "none") = DONE
NoMutexLocked(lk, t) ==
    \A j \in 1..Len(MutexOf(t)) : MutexOf(t)[j] # "" => MutexOf(t)[j] \notin DOMAIN lk
RetriesUsed(t) == Get(retry_counts, t, 0)

\* C1: during a Runner run no two tasks that declare a common non-empty mutex
\* name are Running at the same time (Spec)
C1_RunnerMutualExclusion ==
    \A a, b \in TaskIds :
        (a # b /\ state[a] = RUNNING /\ state[b] = RUNNING) => SharedMutexes(a, b) = {}

\* C2: every launch of a task happens in a state where each of its non-empty
\* dependencies is Done, also after failures and retries (Spec)
C2_DepsDoneAtLaunch ==
    [][\A t \in TaskIds : launches'[t] # launches[t] => AllDepsDone(state, t)]_vars

C2_Witness ==
    \E t \in TaskIds :
        /\ launches[t] >= 2
        /\ \E i \in 1..Len(DepsOf(t)) : DepsOf(t)[i] # ""

\* C3: get_ready() returns exactly the Pending tasks whose non-empty dependencies
\* are all Done and whose non-empty mutexes are all unlocked, each once; empty
\* entries never block (ApiSpec)
ReadySet ==
    {t \in TaskIds : state[t] = PENDING /\ AllDepsDone(state, t) /\ NoMutexLocked(locked, t)}

C3_GetReadyExact ==
    LET r == get_ready(state, locked)
    IN  SeqToSet(r) = ReadySet /\ Len(r) = Cardinality(ReadySet)

C3_Witness ==
    /\ pc = "api"
    /\ \E t \in ReadySet : "" \in SeqToSet(DepsOf(t)) \cup SeqToSet(MutexOf(t))
    /\ \E u \in TaskIds : state[u] = PENDING /\ AllDepsDone(state, u) /\ ~NoMutexLocked(locked, u)

\* C4: when start_task is only applied to tasks get_ready() returns and the
\* other transitions only to Running tasks, a task sharing a non-empty mutex
\* with a Running task is neither Running nor in get_ready() (SchedSpec)
C4_SchedulerMutualExclusion ==
    \A a, b \in TaskIds :
        (a # b /\ state[a] = RUNNING /\ SharedMutexes(a, b) # {}) =>
            /\ state[b] # RUNNING
            /\ b \notin SeqToSet(get_ready(state, locked))

C4_Witness ==
    \E a, b \in TaskIds :
        /\ a # b /\ state[a] = RUNNING /\ state[b] = PENDING
        /\ SharedMutexes(a, b) # {}
        /\ AllDepsDone(state, b)
        /\ last_op = <<"start_task", a>>

\* C5: complete_task on a task that is already Done leaves every lock held by a
\* Running task on a name the Done task declares in place (RecompleteSpec)
C5_NoDoubleRelease ==
    [][\A t \in TaskIds :
          (state[t] = DONE /\ last_op' = <<"complete_task", t>>) =>
              \A m \in DOMAIN locked :
                  (m \in SeqToSet(MutexOf(t)) /\ state[locked[m]] = RUNNING) =>
                      (m \in DOMAIN locked' /\ locked'[m] = locked[m])]_vars

\* C6: on the five-task graph with max_parallel = 3 and every attempt
\* succeeding, TASK-003 is launched only once the other four are Done, no task
\* is launched twice, and the run eventually returns success with all five
\* Done and each launched exactly once (E2ELive)
E2EFinished ==
    /\ pc = "done" /\ result = "success"
    /\ \A t \in TaskIds : state[t] = DONE /\ launches[t] = 1

C6_EndToEnd ==
    /\ [](\A t \in TaskIds : launches[t] <= 1)
    /\ [](launches["TASK-003"] > 0 =>
             \A t \in TaskIds \ {"TASK-003"} : state[t] = DONE)
    /\ <>E2EFinished

C6_Witness ==
    /\ E2EFinished
    /\ active = <<>>
    /\ cfg.max_parallel = 3

\* C7: run() returns success only with every task Done, and a run that ends
\* with nothing Pending or Running and some task Failed returns failure (Spec)
C7_SuccessMeansAllDone ==
    /\ result = "success" => \A t \in TaskIds : state[t] = DONE
    /\ (pc = "done" /\ count_pending(state) = 0 /\ count_running(state) = 0
            /\ count_failed(state) > 0) => result = "failure"

C7_Witness ==
    /\ pc = "done" /\ result = "failure" /\ ~stop_requested
    /\ count_pending(state) = 0 /\ count_running(state) = 0 /\ count_failed(state) > 0
    /\ \E t \in TaskIds : state[t] = DONE

\* the step in which _reap_finished handled the attempt of task t and wrote its report
Handled(t) ==
    /\ pc = "reap" /\ reap_i <= Len(active) /\ active[reap_i].task_id = t
    /\ state[t] = RUNNING /\ state'[t] # RUNNING
    /\ t \in DOMAIN reports'
InternalFailure(t) ==
    /\ Handled(t)
    /\ reports'[t].status # "done"
    /\ reports'[t].failureType = "internal"

\* C8 as stated: an internal failure below the retry cap sends the task back
\* to Pending with its retry count incremented (Spec)
C8_InternalRetried ==
    [][\A t \in TaskIds :
          (InternalFailure(t) /\ RetriesUsed(t) < cfg.max_retries) =>
              /\ state'[t] = PENDING
              /\ Get(retry_counts', t, 0) = RetriesUsed(t) + 1]_vars

\* C8 amended: an internal failure is never retried; the task becomes Failed on
\* that attempt with its retry count unchanged, whatever the cap and the time
\* budget (Spec)
C8_InternalNeverRetried ==
    [][\A t \in TaskIds :
          InternalFailure(t) =>
              /\ state'[t] = FAILED
              /\ Get(retry_counts', t, 0) = RetriesUsed(t)
              /\ t \notin DOMAIN external_failure_since']_vars

C8_Witness ==
    \E t \in TaskIds :
        /\ state[t] = FAILED /\ t \in DOMAIN reports
        /\ reports[t].status = "failed" /\ reports[t].failureType = "internal"
        /\ reports[t].errorMessage = {"syntaxerror"}
        /\ reports[t].retries < cfg.max_retries
        /\ cfg.external_fail_timeout > 0

\* C9: a task's retry count never exceeds max_retries, it is launched at most
\* max_retries + 1 times, and with max_retries <= 0 nothing is retried (Spec)
RetryCap == IF cfg.max_retries > 0 THEN cfg.max_retries ELSE 0

C9_RetryCap ==
    \A t \in TaskIds :
        /\ RetriesUsed(t) <= RetryCap
        /\ launches[t] <= RetryCap + 1
        /\ cfg.max_retries <= 0 =>
              /\ RetriesUsed(t) = 0
              /\ t \in DOMAIN reports => reports[t].status # "retrying"

C9_Witness ==
    \E t \in TaskIds :
        /\ cfg.max_retries >= 2
        /\ RetriesUsed(t) = cfg.max_retries
        /\ launches[t] = cfg.max_retries + 1
        /\ state[t] = FAILED

\* time since the first failed attempt of t was handled
ElapsedSinceFirstFailure(t) == now - Get(first_failure_at, t, now)
Annotated(t) == "external failure timeout after" \in reports'[t].errorMessage

Reaped(t) ==
    /\ pc = "reap" /\ reap_i <= Len(active) /\ reap_i' = reap_i + 1
    /\ active[reap_i].task_id = t
    /\ state[t] = RUNNING /\ state'[t] # RUNNING
Left == last_op'[3]

\* the attempt counted as a success and the merge of its branch ended in a conflict
MergeConflictFailure(t) ==
    /\ Reaped(t)
    /\ Left.rc = 0 /\ Left.commits > 0 /\ Left.meaningful
    /\ ~cfg.create_pr /\ ~Left.merge.ok
    /\ is_merge_conflict_failure(Left.merge.output)

Retried(t) == state'[t] = PENDING /\ Get(retry_counts', t, 0) = RetriesUsed(t) + 1

AttemptFailed(t) ==
    /\ Reaped(t)
    /\ ~(Left.rc = 0 /\ Left.commits > 0 /\ Left.meaningful)

\* C12: a failure whose message matches a policy/sandbox-block pattern is never
\* retried: the task becomes Failed on that attempt with its retry count
\* unchanged, whatever retries and time budget remain (Spec)
C12_PolicyBlockNeverRetried ==
    [][\A t \in TaskIds :
          (AttemptFailed(t) /\ Left.log \cap PolicyBlockPatterns # {}) =>
              /\ state'[t] = FAILED
              /\ Get(retry_counts', t, 0) = RetriesUsed(t)]_vars

\* the provider that follows cur in the configured order, skipping entries equal
\* to cur and wrapping around; cur itself when the list names no other provider
At(ps, i) == ps[(i % Len(ps)) + 1]
FirstIndex(ps, p) == CHOOSE i \in 0..(Len(ps) - 1) : At(ps, i) = p /\ \A j \in 0..(i - 1) : At(ps, j) # p
NextDistinct(ps, cur) ==
    IF \A i \in 1..Len(ps) : ps[i] = cur THEN cur
    ELSE LET i == FirstIndex(ps, cur)
             k == CHOOSE k \in 1..Len(ps) :
                      /\ At(ps, i + k) # cur
                      /\ \A j \in 1..(k - 1) : At(ps, i + j) = cur
         IN  At(ps, i + k)

\* the attempt failed with an external message that is not a merge conflict,
\* and the task was sent back to Pending
ExternalRetry(t) ==
    /\ AttemptFailed(t)
    /\ is_external_failure(Left.log) /\ ~is_merge_conflict_failure(Left.log)
    /\ Retried(t)

\* C13: when an external, non-merge-conflict failure is retried, the task's
\* provider becomes the next distinct provider after its current one in the
\* configured order, wrapping around (claude -> codex -> gemini -> claude on
\* that list); with a single provider it stays (ProviderSpec)
C13_RotationOnExternalRetry ==
    [][\A t \in TaskIds :
          ExternalRetry(t) =>
              /\ task_providers[t] = active[reap_i].provider
              /\ task_providers'[t] = NextDistinct(cfg.providers, task_providers[t])
              /\ cfg.providers = <<"claude", "codex", "gemini">> =>
                    task_providers'[t] =
                        CASE task_providers[t] = "claude" -> "codex"
                          [] task_providers[t] = "codex"  -> "gemini"
                          [] task_providers[t] = "gemini" -> "claude"
              /\ Cardinality(SeqToSet(cfg.providers)) = 1 =>
                    task_providers'[t] = task_providers[t]]_vars

\* the third retry of a task on three providers wraps from the last to the first
C13_Witness ==
    \E t \in TaskIds :
        /\ cfg.providers = <<"claude", "codex", "gemini">>
        /\ pc = "reap" /\ reap_i > 1 /\ reap_i - 1 <= Len(active)
        /\ last_op[1] = "exited" /\ last_op[2] = t /\ last_op[3].log = {"rate limit"}
        /\ active[reap_i - 1].task_id = t /\ active[reap_i - 1].provider = "gemini"
        /\ state[t] = PENDING /\ RetriesUsed(t) = 3
        /\ task_providers[t] = "claude"

\* C14: a merge-conflict failure with retries remaining returns the task to
\* Pending with its retry count incremented by one and leaves the task's
\* provider and the round-robin cursor as they were (ProviderSpec)
C14_MergeConflictKeepsProvider ==
    [][\A t \in TaskIds :
          (MergeConflictFailure(t) /\ RetriesUsed(t) < cfg.max_retries) =>
              /\ Retried(t)
              /\ task_providers' = task_providers
              /\ provider_index' = provider_index]_vars

\* a merge-conflict retry of a task that an earlier rotation had moved off the
\* first provider
C14_Witness ==
    \E t \in TaskIds :
        /\ Len(cfg.providers) >= 2
        /\ pc = "reap" /\ reap_i > 1 /\ reap_i - 1 <= Len(active)
        /\ last_op[1] = "exited" /\ last_op[2] = t /\ ~last_op[3].merge.ok
        /\ active[reap_i - 1].task_id = t
        /\ state[t] = PENDING /\ RetriesUsed(t) >= 2
        /\ task_providers[t] = active[reap_i - 1].provider
        /\ task_providers[t] # cfg.providers[1]

\* C15: the k-th task to receive a provider gets providers[(k-1) mod n] and
\* advances the cursor by one; a launch of a task that already has a provider
\* uses that provider and leaves the cursor alone; the assignment changes only
\* when a retry rotates it (ProviderSpec)
C15_RoundRobinSticky ==
    [][\A t \in TaskIds :
          /\ launches'[t] # launches[t] =>
                /\ IF t \in DOMAIN task_providers
                   THEN task_providers' = task_providers /\ provider_index' = provider_index
                   ELSE /\ task_providers' =
                              Put(task_providers, t, At(cfg.providers, Cardinality(DOMAIN task_providers)))
                        /\ provider_index' = provider_index + 1
                /\ Len(active') > Len(active) => active'[Len(active')].provider = task_providers'[t]
          /\ (t \in DOMAIN task_providers /\ task_providers'[t] # task_providers[t]) =>
                (AttemptFailed(t) /\ Retried(t))]_vars

\* three tasks on two providers: the third wraps to the first provider, and a
\* relaunched task still has the provider it was given
C15_Witness ==
    /\ cfg.providers = <<"claude", "codex">>
    /\ DOMAIN task_providers = {"A", "B", "C"}
    /\ task_providers["A"] = "claude" /\ task_providers["B"] = "codex"
    /\ task_providers["C"] = "claude"
    /\ launches["A"] = 2 /\ RetriesUsed("A") = 1
    /\ \E i \in 1..Len(active) : active[i].task_id = "A" /\ active[i].provider = "claude"

\* the process exited 0 and left no commit, or only commits to tasks.yaml/progress.txt
NoCommitExit(t) ==
    /\ Reaped(t)
    /\ Left.rc = 0 /\ (Left.commits = 0 \/ ~Left.meaningful)

StallKilled(t) == Reaped(t) /\ last_op'[1] = "stalled"

\* C17: an agent whose log has been idle for longer than stalled_timeout is
\* killed at the next reap, its slot leaves the active list, and the attempt is
\* reported Failed with failure classification external (Spec)
C17_StallFailedExternal ==
    [][\A t \in TaskIds :
          StallKilled(t) =>
              /\ still_active' = still_active
              /\ state'[t] = FAILED
              /\ t \in DOMAIN reports' =>
                    /\ reports'[t].status = "failed"
                    /\ reports'[t].failureType = "external"]_vars

\* C18: after start_task(A) and fail_task(A), a Pending task B that lists A in
\* dependsOn has has_failed_deps(B) true, is not in get_ready(), and
\* explain_block(B) names A with state failed; with nothing Running and every
\* Pending task blocked that way (A, B alone), check_deadlock() is true (SchedSpec)
C18_FailedDependencyDeadlock ==
    \A a, b \in TaskIds :
        (last_op = <<"fail_task", a>> /\ state[b] = PENDING /\ a \in SeqToSet(DepsOf(b))) =>
            /\ has_failed_deps(state, b)
            /\ b \notin SeqToSet(get_ready(state, locked))
            /\ <<a, FAILED>> \in SeqToSet(explain_block(state, locked, b).dependsOn)
            /\ (count_running(state) = 0
                  /\ \A p \in TaskIds : state[p] = PENDING =>
                        \E d \in SeqToSet(DepsOf(p)) : d \in TaskIds /\ state[d] = FAILED)
               => check_deadlock(state, locked)

C18_Witness ==
    /\ tf = GraphPair
    /\ last_op = <<"fail_task", "A">>
    /\ state = ("A" :> FAILED) @@ ("B" :> PENDING)
    /\ check_deadlock(state, locked)
    /\ explain_block(state, locked, "B").dependsOn = <<<<"A", FAILED>>>>

\* C19: when the main loop finds check_deadlock() true it reports the blocked
\* tasks and the run ends by returning failure (Spec)
C19_DeadlockReturnsFailure ==
    [][(pc = "check" /\ NotFinished /\ check_deadlock(state, locked)) =>
          (pc' = "done" => result' = "failure")]_vars

\* C20 as stated: no task is launched after the stop flag has been set (Spec)
C20_NoLaunchAfterStop ==
    [][stop_requested => launches' = launches]_vars

\* the control thread is before a stop check of _main_loop, or the run is over
BeforeStopCheck == pc \in {"top", "reap", "sleep", "done"}

\* C20 amended: once the stop flag is set and the control loop is at the top of
\* an iteration, reaping or sleeping, no task is launched any more and the run
\* ends with failure; only the iteration that had passed its post-reap check
\* when the signal arrived still launches the tasks it picks (Spec)
C20_StopEndsLaunching ==
    [][/\ (stop_requested /\ BeforeStopCheck) =>
              /\ BeforeStopCheck'
              /\ launches' = launches
              /\ (pc # "done" /\ pc' = "done") => result' = "failure"
       /\ (stop_requested /\ launches' # launches) =>
              (pc = "launch" /\ Len(to_start) <= cfg.max_parallel)]_vars

\* a run stopped by a signal while a task was ready and not yet launched
C20_Witness ==
    /\ stop_requested /\ pc = "done" /\ result = "failure"
    /\ \E t \in TaskIds :
          /\ launches[t] = 0 /\ state[t] = PENDING
          /\ AllDepsDone(state, t) /\ NoMutexLocked(locked, t)
    /\ \E u \in TaskIds : launches[u] > 0 /\ state[u] = FAILED

\* the step in which the control loop sees the stop flag (runner.py:517, 524),
\* and the slots that are active at that point
StopObserved ==
    /\ stop_requested /\ pc' = "done"
    /\ \/ pc = "top"
       \/ pc = "reap" /\ reap_i > Len(active)
ActiveAtStop == IF pc = "top" THEN active ELSE Kept
TasksAtStop == {ActiveAtStop[i].task_id : i \in 1..Len(ActiveAtStop)}

\* C21: when the control loop observes the stop flag, the task of every active
\* slot becomes Failed with an 'Interrupted by user' failed report, whether its
\* process was still running or had exited, the active list is emptied and the
\* run returns failure; every other task, Pending ones included, keeps its
\* state (Spec)
C21_StopAbortsActive ==
    [][StopObserved =>
          /\ active' = <<>>
          /\ result' = "failure"
          /\ \A t \in TasksAtStop :
                /\ state'[t] = FAILED
                /\ cfg.artifacts_dir =>
                      /\ t \in DOMAIN reports'
                      /\ reports'[t].status = "failed"
                      /\ reports'[t].errorMessage = {"interrupted by user (ctrl-c)"}
          /\ \A t \in TaskIds \ TasksAtStop : state'[t] = state[t]]_vars

\* a run interrupted while its last task was running and the other was Done
C21_Witness ==
    /\ pc = "done" /\ stop_requested /\ result = "failure" /\ active = <<>>
    /\ \E t \in TaskIds :
          /\ state[t] = FAILED /\ t \in DOMAIN reports
          /\ reports[t].errorMessage = {"interrupted by user (ctrl-c)"}
          /\ TaskIds # {t}
          /\ \A u \in TaskIds \ {t} : state[u] = DONE

\* the step in which _launch_agent was called for task t and took one of its
\* early returns: the engine could not be built, the provider is unavailable,
\* the worktree could not be created, or the process could not be started
LaunchFailed(t) ==
    /\ pc = "launch" /\ to_start # <<>> /\ Head(to_start) = t
    /\ launches'[t] = launches[t] + 1
    /\ last_op'[1] = "launch" /\ last_op'[3] # "started"

\* C22: a launch that fails before the agent process runs makes that task
\* Failed, records no slot, leaves none of the task's mutex names locked and
\* changes no other task's state; the loop goes on to the remaining launches of
\* the iteration or to its sleep (Spec)
C22_LaunchFailureIsLocal ==
    [][\A t \in TaskIds :
          LaunchFailed(t) =>
              /\ state'[t] = FAILED
              /\ active' = active
              /\ \A j \in 1..Len(MutexOf(t)) : MutexOf(t)[j] \notin DOMAIN locked'
              /\ \A u \in TaskIds \ {t} : state'[u] = state[u]
              /\ pc' = (IF Tail(to_start) = <<>> THEN "sleep" ELSE "launch")
              /\ to_start' = Tail(to_start)
              /\ result' = "none"]_vars

\* a worktree failure for a task that declares a mutex, with another task of
\* the same iteration still to be launched
C22_Witness ==
    \E t \in TaskIds :
        /\ last_op = <<"launch", t, "worktree_error">>
        /\ state[t] = FAILED
        /\ \E j \in 1..Len(MutexOf(t)) : MutexOf(t)[j] # ""
        /\ pc = "launch" /\ to_start # <<>>
        /\ \A i \in 1..Len(active) : active[i].task_id # t

\* C23: at every point of a run at most max_parallel tasks are Running and at
\* most max_parallel agent slots are recorded, also between the launches of one
\* iteration and during a reap pass (Spec)
C23_BoundedSlots ==
    /\ count_running(state) <= cfg.max_parallel
    /\ Len(active) <= cfg.max_parallel

\* every slot is taken while another task is ready to run
C23_Witness ==
    /\ Len(active) = cfg.max_parallel /\ count_running(state) = cfg.max_parallel
    /\ pc = "check"
    /\ get_ready(state, locked) # <<>>

\* task t was sent back to Pending by a retry less than retry_delay ago
WaitingOutDelay(t) ==
    /\ cfg.retry_delay > 0
    /\ state[t] = PENDING /\ t \in DOMAIN retried_at
    /\ now < retried_at[t] + cfg.retry_delay

\* C24: with retry_delay = d > 0 a retried task is relaunched no earlier than d
\* after the failure was handled, although the Scheduler reports it ready and
\* slots are free; while it waits the deadlock check is false and the run does
\* not end as a deadlock (Spec)
C24_RetryDelayRespected ==
    [][\A t \in TaskIds :
          /\ (cfg.retry_delay > 0 /\ launches'[t] # launches[t] /\ t \in DOMAIN retried_at) =>
                now >= retried_at[t] + cfg.retry_delay
          /\ WaitingOutDelay(t) =>
                /\ launches'[t] = launches[t]
                /\ ~check_deadlock(state, locked)
                /\ result' # "raised"]_vars

\* the loop goes to sleep with a free slot and a ready task whose delay has not elapsed
C24_Witness ==
    \E t \in TaskIds :
        /\ WaitingOutDelay(t)
        /\ pc = "sleep" /\ to_start = <<>>
        /\ count_running(state) = 0 /\ active = <<>>
        /\ t \in SeqToSet(get_ready(state, locked))
        /\ RetriesUsed(t) >= 1

\* the step in which complete_task, fail_task or retry_task was applied to the
\* Running task t
Released(t) ==
    /\ state[t] = RUNNING
    /\ last_op' \in {<<"complete_task", t>>, <<"fail_task", t>>, <<"retry_task", t>>}

\* u is Pending with its dependencies Done and is kept out of get_ready() only by
\* locked mutex names that t declares
BlockedOnlyBy(u, t) ==
    /\ u # t /\ state[u] = PENDING /\ AllDepsDone(state, u)
    /\ ~NoMutexLocked(locked, u)
    /\ \A j \in 1..Len(MutexOf(u)) :
          (MutexOf(u)[j] # "" /\ MutexOf(u)[j] \in DOMAIN locked) =>
              MutexOf(u)[j] \in SeqToSet(MutexOf(t))

\* C25: complete_task, fail_task and retry_task on a Running task leave none of
\* the names it declares locked, so a Pending task that only those names kept
\* out of get_ready() is in it right after; retry_task also makes the task
\* Pending, and it is in get_ready() exactly when its dependencies are Done and
\* its mutexes free (SchedSpec)
C25_TransitionsReleaseMutexes ==
    [][\A t \in TaskIds :
          Released(t) =>
              /\ \A j \in 1..Len(MutexOf(t)) : MutexOf(t)[j] \notin DOMAIN locked'
              /\ \A u \in TaskIds :
                    BlockedOnlyBy(u, t) => u \in SeqToSet(get_ready(state', locked'))
              /\ last_op'[1] = "retry_task" =>
                    /\ state'[t] = PENDING
                    /\ t \in SeqToSet(get_ready(state', locked'))
                          <=> (AllDepsDone(state', t) /\ NoMutexLocked(locked', t))]_vars

\* after retry_task on a task holding two mutex names, both it and the task
\* that waited for one of them are ready
C25_Witness ==
    \E t, u \in TaskIds :
        /\ t # u /\ last_op = <<"retry_task", t>>
        /\ Cardinality(SeqToSet(MutexOf(t)) \ {""}) >= 2
        /\ SharedMutexes(t, u) # {}
        /\ state[t] = PENDING /\ state[u] = PENDING
        /\ {t, u} \subseteq SeqToSet(get_ready(state, locked))

\* position of a task in the task graph, and sequences that follow that order
Index(t) == CHOOSE i \in 1..Len(tf.tasks) : tf.tasks[i] = t
InFileOrder(s) == \A i, j \in 1..Len(s) : i < j => Index(s[i]) < Index(s[j])

\* ready by the Scheduler's conditions and not waiting out a retry delay
Launchable == {u \in ReadySet : u \in DOMAIN retry_after => retry_after[u] <= now}

\* C26: in every reachable state get_ready() lists the ready tasks in task-graph
\* order, and the Runner fills its free slots in that order: the tasks an
\* iteration picks precede every launchable task it leaves out, and they are
\* launched first to last (Spec)
C26_ReadyInFileOrder ==
    /\ [](InFileOrder(get_ready(state, locked)))
    /\ [][/\ (pc = "check" /\ pc' = "launch") =>
                /\ InFileOrder(to_start')
                /\ SeqToSet(to_start') \subseteq Launchable
                /\ \A u \in Launchable \ SeqToSet(to_start') :
                      \A i \in 1..Len(to_start') : Index(to_start'[i]) < Index(u)
          /\ \A t \in TaskIds :
                launches'[t] # launches[t] =>
                    \A i \in 1..Len(to_start') : Index(t) < Index(to_start'[i])]_vars

\* after one task is Done and another was retried, the retried task is picked
\* ahead of a later ready task that finds no free slot
C26_Witness ==
    /\ pc = "launch" /\ to_start # <<>>
    /\ Len(get_ready(state, locked)) > Len(to_start)
    /\ RetriesUsed(Head(to_start)) >= 1
    /\ \E u \in TaskIds : state[u] = DONE

\* the tasks whose completed flag is set in the loaded task graph
PreCompleted == {t \in TaskIds : tf.completed[t]}
OnlyPreCompletedDeps(u) == (SeqToSet(DepsOf(u)) \ {""}) \subseteq PreCompleted

\* C27: a run starts with the pre-completed tasks Done and all others Pending,
\* and with every other task whose dependencies are all pre-completed ready; a
\* pre-completed task stays Done, keeps satisfying its dependents and is never
\* launched (ResumeSpec)
C27_PreCompletedTasks ==
    /\ \A t \in TaskIds : state[t] = (IF t \in PreCompleted THEN DONE ELSE PENDING)
    /\ \A u \in TaskIds \ PreCompleted :
          OnlyPreCompletedDeps(u) => u \in SeqToSet(get_ready(state, locked))
    /\ [](\A t \in PreCompleted :
             /\ state[t] = DONE /\ launches[t] = 0
             /\ \A i \in 1..Len(active) : active[i].task_id # t)
    /\ [](\A u \in TaskIds : OnlyPreCompletedDeps(u) => deps_satisfied(state, u))

\* a resumed run that succeeded by launching only the tasks that were not
\* completed, one of them depending on a pre-completed task
C27_Witness ==
    /\ pc = "done" /\ result = "success"
    /\ PreCompleted # {} /\ PreCompleted # TaskIds
    /\ \A t \in PreCompleted : launches[t] = 0
    /\ \E u \in TaskIds \ PreCompleted :
          /\ launches[u] >= 1 /\ state[u] = DONE
          /\ \E d \in PreCompleted : d \in SeqToSet(DepsOf(u))

\* the attempt of task t counted as a success, so its branch was merged into base
MergeAttempted(t) ==
    /\ Reaped(t)
    /\ Left.rc = 0 /\ Left.commits > 0 /\ Left.meaningful
    /\ ~cfg.create_pr

\* C28: in merge mode a task is Done exactly when its completed flag has been
\* written, and both happen only in a step whose merge succeeded; when the
\* merge fails the task is Pending or Failed after that attempt, its flag is
\* not written, the report says retrying or failed, and the task's provider and
\* the provider cursor are unchanged either way (Spec)
C28_DoneOnlyAfterMerge ==
    /\ [](\A t \in TaskIds : ~cfg.create_pr => (state[t] = DONE <=> t \in prd_completed))
    /\ [][\A t \in TaskIds :
             /\ (state'[t] = DONE /\ state[t] # DONE) => (MergeAttempted(t) /\ Left.merge.ok)
             /\ (MergeAttempted(t) /\ ~Left.merge.ok) =>
                   /\ state'[t] \in {PENDING, FAILED}
                   /\ prd_completed' = prd_completed
                   /\ t \in DOMAIN reports' => reports'[t].status \in {"retrying", "failed"}
                   /\ task_providers' = task_providers
                   /\ provider_index' = provider_index]_vars

\* a merge blocked without output made a task Failed that an earlier external
\* failure had rotated to the second provider
C28_Witness ==
    \E t \in TaskIds :
        /\ pc = "reap" /\ last_op[1] = "exited" /\ last_op[2] = t
        /\ last_op[3].rc = 0 /\ last_op[3].merge = MergeBlocked
        /\ state[t] = FAILED /\ t \notin prd_completed
        /\ RetriesUsed(t) >= 1 /\ RetriesUsed(t) < cfg.max_retries
        /\ task_providers[t] = "codex"

\* C29: with max_iterations = N > 0 a run performs at most N launches: once N
\* launches were made no task is launched any more, and when then no task is
\* Running and tasks remain Pending (and are not deadlocked) the run ends with
\* failure (Spec)
C29_IterationCap ==
    [][cfg.max_iterations > 0 =>
          /\ iteration' <= cfg.max_iterations
          /\ max_reached => launches' = launches
          /\ (pc = "check" /\ max_reached /\ count_running(state) = 0
                /\ count_pending(state) > 0 /\ ~check_deadlock(state, locked)) =>
                (pc' = "done" /\ result' = "failure")]_vars

\* C30: with an artifact directory configured, every task that is Failed when
\* run() returns has a persisted report whose status is 'failed', whatever made
\* it Failed (Spec)
C30_FailedTasksReported ==
    (pc = "done" /\ result \in {"success", "failure"} /\ cfg.artifacts_dir) =>
        \A t \in TaskIds :
            state[t] = FAILED => (t \in DOMAIN reports /\ reports[t].status = "failed")

\* C31: whenever a task branch is merged into base, base keeps its own version
\* of tasks.yaml and of progress.txt: what the branch changed or created there
\* was reverted to the base version, or removed, before the merge
C31_ReservedFilesNeverMerge ==
    [][(repo.phase = "open" /\ repo'.phase = "merged") =>
          \A f \in FORBIDDEN_TASK_FILES : repo'.base[f] = repo.base[f]]_vars
\* a merge after which the branch had changed tasks.yaml, present on base, and
\* created progress.txt, absent on base, and both were sanitized
C31_Witness ==
    /\ repo.phase = "merged"
    /\ repo.sanitized = FORBIDDEN_TASK_FILES
    /\ repo.base["tasks.yaml"] # 0 /\ repo.base["progress.txt"] = 0
    /\ repo.base["app.py"] = 2

\* the dependencies of t, of those, and so on (a validated graph has no cycle)
RECURSIVE TransitiveDeps(_, _)
TransitiveDeps(t, depth) ==
    LET direct == (SeqToSet(DepsOf(t)) \ {""}) \cap DOMAIN state
    IN  IF depth = 0 THEN direct
        ELSE direct \cup UNION {TransitiveDeps(d, depth - 1) : d \in direct}
Unaffected(t) == \A d \in TransitiveDeps(t, Len(tf.tasks)) : state[d] # FAILED
SomeFailed == \E a \in DOMAIN state : state[a] = FAILED

\* C32: a Failed task does not end the run: with no stop request and no
\* iteration cap, a Pending task none of whose transitive dependencies is Failed
\* is launched later on (unless one of them fails first), and a run that ended
\* without success left no such task Pending or Running
C32_FailureDoesNotAbort ==
    /\ \A t \in SeqToSet(ABC) :
          (SomeFailed /\ t \in DOMAIN state /\ state[t] = PENDING /\ Unaffected(t))
          ~> ((last_op[1] = "launch" /\ last_op[2] = t) \/ ~Unaffected(t))
    /\ [](result \in {"failure", "raised"} =>
             \A t \in DOMAIN state : state[t] \in {PENDING, RUNNING} => ~Unaffected(t))
\* a task just launched while another task is Failed
C32_Witness ==
    \E a, t \in DOMAIN state :
        /\ state[a] = FAILED /\ a \notin TransitiveDeps(t, Len(tf.tasks))
        /\ state[t] = RUNNING /\ last_op = <<"launch", t, "started">>

\* C33: when every agent process eventually exits, every run terminates: the
\* main loop is eventually left
C33_RunTerminates == <>(pc = "done")

\* C34 as stated: reports are append-only, a later attempt never overwrites or
\* removes the record an earlier attempt of the task left
C34_ReportsAppendOnly ==
    [][\A t \in TaskIds :
          (Reaped(t) /\ cfg.artifacts_dir /\ t \in DOMAIN reports) =>
              (t \in DOMAIN reports' /\ reports'[t] = reports[t])]_vars
\* C34: with an artifact directory, the attempt of a task handled by the reaper
\* leaves one record for the task, that of this attempt (its number is the
\* number of launches of the task), in place of the record of the attempt
\* before; the records of the other tasks stay as they were
C34_OneReportPerTask ==
    [][\A t \in TaskIds :
          (Reaped(t) /\ cfg.artifacts_dir) =>
              /\ t \in DOMAIN reports'
              /\ reports'[t].attempt = launches[t]
              /\ reports'[t].status \in {"retrying", "failed", "done"}
              /\ \A u \in DOMAIN reports \ {t} :
                    u \in DOMAIN reports' /\ reports'[u] = reports[u]]_vars
\* the only record of a task is that of its second attempt
C34_Witness ==
    \E t \in TaskIds :
        /\ cfg.artifacts_dir /\ launches[t] = 2 /\ state[t] = DONE
        /\ t \in DOMAIN reports /\ reports[t].attempt = 2 /\ reports[t].status = "done"

\* C35: a rotation on retry gives the task the next distinct provider after
\* its current one and changes nothing else: the providers of the other tasks
\* and the round-robin cursor stay, the cursor counts first assignments only,
\* and a task assigned later gets the provider its rank among the assigned
\* tasks gives it, whatever retries happened before (ProviderSpec)
C35_RotationIsLocal ==
    /\ [](provider_index = Cardinality(DOMAIN task_providers))
    /\ [][\A t \in TaskIds :
            /\ (Reaped(t) /\ t \in DOMAIN task_providers
                  /\ task_providers'[t] # task_providers[t]) =>
                  /\ task_providers' =
                        [task_providers EXCEPT ![t] = NextDistinct(cfg.providers, task_providers[t])]
                  /\ provider_index' = provider_index
            /\ (launches'[t] # launches[t] /\ t \notin DOMAIN task_providers) =>
                  task_providers'[t] = At(cfg.providers, Cardinality(DOMAIN task_providers))]_vars
\* a task was just rotated while another task holds a provider and a third has
\* none yet
C35_Witness ==
    \E t, u, w \in TaskIds :
        /\ t # u /\ u \in DOMAIN task_providers /\ w \notin DOMAIN task_providers
        /\ pc = "reap" /\ reap_i > 1 /\ reap_i - 1 <= Len(active)
        /\ last_op[1] = "exited" /\ last_op[2] = t
        /\ active[reap_i - 1].task_id = t
        /\ state[t] = PENDING /\ RetriesUsed(t) = 1
        /\ task_providers[t] # active[reap_i - 1].provider
        /\ provider_index = 2

\* C36: in every state of a Runner run each lock-table entry m -> t has t
\* Running with m among the mutexes t declares, every non-empty mutex declared
\* by a Running task is in the table, and with no task Running the table is empty
C36_LockTableConsistent ==
    /\ \A m \in DOMAIN locked :
          /\ locked[m] \in DOMAIN state /\ state[locked[m]] = RUNNING
          /\ m \in SeqToSet(MutexOf(locked[m]))
    /\ \A t \in TaskIds :
          state[t] = RUNNING => (SeqToSet(MutexOf(t)) \ {""}) \subseteq DOMAIN locked
    /\ count_running(state) = 0 => locked = EmptyDict

\* C37: under the Runner a Done or Failed task keeps its state and is not
\* launched again; a task is started only from Pending, and completed, failed
\* or sent back to Pending only from Running (a launch that fails starts the
\* task and fails it within _launch_agent)
C37_TerminalStatesAbsorbing ==
    [][\A t \in TaskIds :
          /\ state[t] \in {DONE, FAILED} =>
                (state'[t] = state[t] /\ launches'[t] = launches[t])
          /\ (launches'[t] # launches[t] \/ (state'[t] = RUNNING /\ state[t] # RUNNING)) =>
                state[t] = PENDING
          /\ (state'[t] # state[t] /\ state'[t] \in {DONE, FAILED, PENDING}) =>
                (state[t] = RUNNING \/ LaunchFailed(t))]_vars
\* a task is Failed, another Done, and the run went on to launch a third
C37_Witness ==
    \E a, b, c \in TaskIds :
        /\ state[a] = FAILED /\ state[b] = DONE /\ launches[a] = 1 /\ launches[b] >= 1
        /\ state[c] = RUNNING /\ last_op = <<"launch", c, "started">>

\* C38: on a validated task graph, whenever the main loop finds
\* check_deadlock() true some Pending task has a direct dependency that is
\* Failed, so the report never takes its "cycle or mutex contention" branch
C38_DeadlockMeansFailedDeps ==
    (pc = "check" /\ check_deadlock(state, locked)) =>
        /\ \E t \in TaskIds : state[t] = PENDING /\ has_failed_deps(state, t)
        /\ locked = EmptyDict
\* the main loop is about to report a deadlock: two Pending tasks wait for a
\* Failed one, nothing is Running
C38_Witness ==
    /\ pc = "check" /\ check_deadlock(state, locked)
    /\ \E a, t, u \in TaskIds :
          /\ t # u /\ state[a] = FAILED
          /\ state[t] = PENDING /\ has_failed_deps(state, t)
          /\ state[u] = PENDING /\ has_failed_deps(state, u)

\* the task ids of the active slots, and the tasks that are Running
SlotIds == {active[i].task_id : i \in 1..Len(active)}
RunningIds == {t \in TaskIds : state[t] = RUNNING}

\* C39: when the run is over, however it ended, no task is Running and no
\* slot is active; at the top of a loop iteration and at its closing sleep the
\* active slots are the Running tasks, one slot each
C39_SlotsMatchRunning ==
    /\ pc = "done" => (RunningIds = {} /\ active = <<>>)
    /\ pc \in {"top", "sleep"} =>
          (SlotIds = RunningIds /\ Len(active) = Cardinality(RunningIds))
\* the run ended on a stop request that found the task launched last still active
C39_Witness ==
    \E u \in TaskIds :
        /\ pc = "done" /\ stop_requested /\ result = "failure"
        /\ last_op = <<"launch", u, "started">> /\ state[u] = FAILED
        /\ active = <<>>

\* C40: start_task, complete_task, fail_task and retry_task on task t change
\* the state of t only and lock-table entries under names t declares only;
\* get_ready, check_deadlock, explain_block and has_failed_deps change nothing
\* (QuerySpec)
C40_TransitionsAreLocal ==
    [][\A t \in TaskIds :
          /\ last_op' \in {<<"start_task", t>>, <<"complete_task", t>>,
                           <<"fail_task", t>>, <<"retry_task", t>>} =>
                /\ \A u \in TaskIds \ {t} : state'[u] = state[u]
                /\ DOMAIN state' = DOMAIN state
                /\ \A m \in (DOMAIN locked \cup DOMAIN locked') \ SeqToSet(MutexOf(t)) :
                      m \in DOMAIN locked /\ m \in DOMAIN locked' /\ locked'[m] = locked[m]
          /\ last_op'[1] \in {"get_ready", "check_deadlock", "explain_block", "has_failed_deps"} =>
                (state' = state /\ locked' = locked)]_vars
\* fail_task was just applied to a task while another task is Running and holds
\* a mutex the failed task does not declare
C40_Witness ==
    \E t, u \in TaskIds, m \in DOMAIN locked :
        /\ t # u /\ last_op = <<"fail_task", t>> /\ state[t] = FAILED
        /\ state[u] = RUNNING /\ locked[m] = u
        /\ m \notin SeqToSet(MutexOf(t)) /\ SeqToSet(MutexOf(t)) \ {""} # {}

====
